---------------------------- MODULE Spec2Model ----------------------------
(***************************************************************************)
(* Model of the witness-solving kernel of gnark: the per-solve solution    *)
(* (internal/backend/bls12-381/cs/solution.go), the hint function protocol *)
(* (backend/hint) and its process-wide registry (backend/hint/registry.go).*)
(***************************************************************************)
EXTENDS Integers, Sequences, FiniteSets, TLC

(***************************************************************************)
(* Bounds of the model.                                                    *)
(***************************************************************************)
\* number of wires of the compiled circuit (nbWires of newSolution)
NbWires == 2

\* The scalar field modulus fr.Modulus().  The model computes in Z/Q with a
\* small Q; 0, 1, 2 and -1 are pairwise different in it.
Q == 5

Wires == 0 .. (NbWires - 1)
Fr == 0 .. (Q - 1)

(***************************************************************************)
(* fr.Element arithmetic, as solution.go uses it.                          *)
(***************************************************************************)
\* fr.Element.Double: res = a + a
frDouble(a) == (a + a) % Q

\* fr.Element.Neg: res = q - a, and 0 for 0
frNeg(a) == IF a = 0 THEN 0 ELSE Q - a

\* fr.Element.Mul
frMul(a, b) == (a * b) % Q

\* a conversion that keeps the integer as it is
frSetBigIntRaw(n) == n

\* fr.Element.SetBigInt: the integer reduced into [0, q)
frSetBigInt(n) == n % Q

(***************************************************************************)
(* compiled.Term: (coefficient ID, wire ID, visibility).                   *)
(***************************************************************************)
CoeffIdZero == 0
CoeffIdOne == 1
CoeffIdTwo == 2
CoeffIdMinusOne == 3

Virtual == "Virtual"
Internal == "Internal"

\* number of entries of the coefficient table: the four reserved ones and
\* one general coefficient
NbCoeffs == 5

CoeffIDs == 0 .. (NbCoeffs - 1)

Term(c, w, vis) == [cID |-> c, vID |-> w, vis |-> vis]

Terms == { Term(c, w, vis) : c \in CoeffIDs, w \in Wires, vis \in {Internal, Virtual} }

\* The coefficient table of the compiled circuit: the literals 0, 1, 2, -1
\* at the reserved IDs, then the circuit's own coefficients.
CoeffTable == [c \in CoeffIDs |->
                 CASE c = CoeffIdZero -> 0
                   [] c = CoeffIdOne -> 1
                   [] c = CoeffIdTwo -> 2 % Q
                   [] c = CoeffIdMinusOne -> Q - 1
                   [] OTHER -> 3 % Q]


(***************************************************************************)
(* backend/hint: hint.Function, fixedArgumentsFunction, ID.                *)
(***************************************************************************)
\* A hint.Function is known to the runtime by the name of its code
\* (runtime.FuncForPC(...).Name()), a byte string.
FnDouble == <<109, 97, 105, 110, 46, 100, 111, 117, 98, 108, 101>>  \* "main.double"
FnCopy == <<109, 97, 105, 110, 46, 97, 57, 111, 106>>               \* "main.a9oj"
FnFail == <<109, 97, 105, 110, 46, 69, 56, 117, 97>>                \* "main.E8ua"

Functions == {FnDouble, FnCopy, FnFail}

\* largest declared number of inputs or outputs of a fixed-arity hint
MaxArity == 2

Arities == 0 .. MaxArity

\* NewFixedHint(fn, nIn, nOut)
NewFixedHint(fn, nIn, nOut) == [fn |-> fn, nIn |-> nIn, nOut |-> nOut]

AnnotatedFunctions == { NewFixedHint(fn, i, o) : fn \in Functions, i \in Arities, o \in Arities }

\* bit k (k a power of two) of the exclusive or of a and b, in place
XorBit(a, b, k) == ((((a \div k) % 2) + ((b \div k) % 2)) % 2) * k

\* exclusive or of two bytes
Xor8(a, b) ==
    XorBit(a, b, 1) + XorBit(a, b, 2) + XorBit(a, b, 4) + XorBit(a, b, 8)
    + XorBit(a, b, 16) + XorBit(a, b, 32) + XorBit(a, b, 64) + XorBit(a, b, 128)

\* A uint32 is kept as its two 16-bit halves <<hi, lo>>.
\* fnv.New32a: the offset basis 0x811C9DC5
fnvOffset32 == <<33052, 40389>>

\* One byte of hash/fnv's sum32a.Write: hash ^= b; hash *= 16777619, mod 2^32
\* (16777619 = 2^24 + 403).
fnvWriteByte(h, b) ==
    LET lo == (h[2] \div 256) * 256 + Xor8(h[2] % 256, b)
        hi == h[1]
    IN  << (hi * 403 + ((lo * 403) \div 65536) + (lo % 256) * 256) % 65536,
           (lo * 403) % 65536 >>

\* sum32a.Write from byte k of bytes on, then Sum32.  (The test on next only
\* makes TLC compute one step before it starts the following one.)
RECURSIVE fnvWrite(_, _, _)
fnvWrite(h, bytes, k) ==
    IF k > Len(bytes) THEN h
    ELSE LET next == fnvWriteByte(h, bytes[k])
         IN  IF next[1] < 65536 THEN fnvWrite(next, bytes, k + 1) ELSE next

\* binary.BigEndian.PutUint64(buf[:], uint64(n)) for 0 <= n < 2^31
PutUint64(n) ==
    << 0, 0, 0, 0, (n \div 16777216) % 256, (n \div 65536) % 256, (n \div 256) % 256, n % 256 >>

\* The body of fixedArgumentsFunction.UUID: FNV-1a (32 bit) of the function's
\* name, then nIn and nOut as 8 big-endian bytes each.
hashSum32(h) ==
    fnvWrite(fnvOffset32, h.fn \o PutUint64(h.nIn) \o PutUint64(h.nOut), 1)

\* the identifier of every function, computed once
UUIDs == [h \in AnnotatedFunctions |-> hashSum32(h)]

\* fixedArgumentsFunction.UUID
UUID(h) == UUIDs[h]

\* fixedArgumentsFunction.TotalInputs
TotalInputs(h) == h.nIn

\* fixedArgumentsFunction.TotalOutputs: the argument is ignored
TotalOutputs(h, nInputs) == h.nOut

\* a computation that copies its inputs whatever the function
applyCopies(fn, inputs, res) ==
    [res |-> [i \in 1 .. Len(res) |-> IF i <= Len(inputs) THEN inputs[i] ELSE res[i]],
     err |-> "nil"]

\* The raw computation fn(curveID, inputs, res): what it leaves in res and
\* whether it returns an error.  main.double is the paired-doubling hint
\* (res[i] = 2 * inputs[i]); main.a9oj copies its inputs; main.E8ua fails and
\* writes nothing.  An output without an input of the same index is left as
\* it was.
Apply(fn, inputs, res) ==
    CASE fn = FnDouble ->
           [res |-> [i \in 1 .. Len(res) |->
                       IF i <= Len(inputs) THEN inputs[i] * 2 ELSE res[i]],
            err |-> "nil"]
      [] fn = FnCopy ->
           [res |-> [i \in 1 .. Len(res) |->
                       IF i <= Len(inputs) THEN inputs[i] ELSE res[i]],
            err |-> "nil"]
      [] OTHER -> [res |-> res, err |-> "hint failed"]

ErrInputArity == "input has a wrong number of elements"
ErrResultArity == "result has a wrong number of elements"

\* the checks of Call without the one on len(res)
arityErrorInputsOnly(h, nInputs, nRes) ==
    IF nInputs # h.nIn THEN ErrInputArity ELSE "nil"

\* The checks of fixedArgumentsFunction.Call (lines 136-141) on len(inputs)
\* and len(res): the error they return, "nil" for none.
arityError(h, nInputs, nRes) ==
    IF nInputs # h.nIn THEN ErrInputArity
    ELSE IF nRes # h.nOut THEN ErrResultArity
    ELSE "nil"

\* fixedArgumentsFunction.Call.  invoked records whether, and on what, the
\* raw computation ran.
Call(h, inputs, res) ==
    IF arityError(h, Len(inputs), Len(res)) # "nil"
    THEN [res |-> res, err |-> arityError(h, Len(inputs), Len(res)), invoked |-> <<>>]
    ELSE LET r == Apply(h.fn, inputs, res)
         IN  [res |-> r.res, err |-> r.err,
              invoked |-> << [fn |-> h.fn, inputs |-> inputs, nRes |-> Len(res)] >>]

(***************************************************************************)
(* cs.solution: values, coefficients, solved, nbSolved, mHintsFunctions.   *)
(***************************************************************************)
\* the lookup of line 55 answering that no identifier is present
hasHintFunctionNever(m, id) == FALSE

\* _, ok := s.mHintsFunctions[id]
hasHintFunction(m, id) == id \in DOMAIN m

\* the map of newSolution while it is filled from hintFunctions[k..]
RECURSIVE fillHintsFunctions(_, _, _)
fillHintsFunctions(m, hintFunctions, k) ==
    IF k > Len(hintFunctions) THEN [err |-> "nil", m |-> m]
    ELSE LET id == UUID(hintFunctions[k])
         IN  IF hasHintFunction(m, id)
             THEN [err |-> "duplicate hint function", m |-> m]
             ELSE fillHintsFunctions([i \in DOMAIN m \cup {id} |->
                                        IF i = id THEN hintFunctions[k] ELSE m[i]],
                                     hintFunctions, k + 1)

\* the zero value solution{} that newSolution returns beside an error
NoSolution ==
    [values |-> <<>>, coefficients |-> <<>>, solved |-> <<>>, nbSolved |-> 0,
     mHintsFunctions |-> <<>>]

\* newSolution(nbWires, hintFunctions, coefficients)
newSolution(nbWires, hintFunctions, coeffs) ==
    LET r == fillHintsFunctions([i \in {} |-> 0], hintFunctions, 1)
    IN  IF r.err # "nil"
        THEN [err |-> r.err, s |-> NoSolution]
        ELSE [err |-> "nil",
              s |-> [values |-> [w \in 0 .. (nbWires - 1) |-> 0],
                     coefficients |-> coeffs,
                     solved |-> [w \in 0 .. (nbWires - 1) |-> FALSE],
                     nbSolved |-> 0,
                     mHintsFunctions |-> r.m]]

\* set without the check of line 65: a solved wire is assigned again
setOverwrites(s, id, value) ==
    [panic |-> FALSE,
     s |-> [s EXCEPT !.values[id] = value,
                     !.solved[id] = TRUE,
                     !.nbSolved = s.nbSolved + 1]]

\* set that returns on a solved wire instead of panicking
setSilent(s, id, value) ==
    IF s.solved[id]
    THEN [panic |-> FALSE, s |-> s]
    ELSE setOverwrites(s, id, value)

\* solution.set: panics on a solved wire
set(s, id, value) ==
    IF s.solved[id]
    THEN [panic |-> TRUE, s |-> s]
    ELSE [panic |-> FALSE,
          s |-> [s EXCEPT !.values[id] = value,
                          !.solved[id] = TRUE,
                          !.nbSolved = s.nbSolved + 1]]

\* solution.isValid
isValid(s) == s.nbSolved = Cardinality(DOMAIN s.values)

\* the switch with the cases of CoeffIdTwo and CoeffIdMinusOne exchanged
termValueSwapped(s, cID, vID) ==
    CASE cID = CoeffIdZero -> 0
      [] cID = CoeffIdOne -> s.values[vID]
      [] cID = CoeffIdTwo -> frNeg(s.values[vID])
      [] cID = CoeffIdMinusOne -> frDouble(s.values[vID])
      [] OTHER -> frMul(s.coefficients[cID], s.values[vID])

\* The switch of computeTerm (lines 83-100): the reserved coefficients
\* without a multiplication, every other one by fr.Element.Mul.
termValue(s, cID, vID) ==
    CASE cID = CoeffIdZero -> 0
      [] cID = CoeffIdOne -> s.values[vID]
      [] cID = CoeffIdTwo -> frDouble(s.values[vID])
      [] cID = CoeffIdMinusOne -> frNeg(s.values[vID])
      [] OTHER -> frMul(s.coefficients[cID], s.values[vID])

\* the guard of line 79 without the test of cID: an unsolved wire panics
\* whatever the coefficient
computeTermZeroChecked(s, t) ==
    IF ~s.solved[t.vID]
    THEN [panic |-> TRUE, val |-> 0]
    ELSE [panic |-> FALSE, val |-> termValue(s, t.cID, t.vID)]

\* solution.computeTerm: panics on an unsolved wire unless cID is 0
computeTerm(s, t) ==
    IF t.cID # 0 /\ ~s.solved[t.vID]
    THEN [panic |-> TRUE, val |-> 0]
    ELSE [panic |-> FALSE, val |-> termValue(s, t.cID, t.vID)]

(***************************************************************************)
(* solution.solveWithHint.  A compiled.Hint is [ID, Inputs, Wires]; a      *)
(* buffer taken from bigIntPool holds what its last user left in it, which *)
(* the caller of the operator gives as pool (pool[1] for lambda, pool[i]   *)
(* for outputs[i-1], i > 1).                                               *)
(***************************************************************************)
ErrMissingHint == "missing hint function"
ErrUnresolved == "expected wire to be instantiated while evaluating hint"

\* the test of line 134 never finding an unsolved wire
wireUnsolvedNever(s, t) == FALSE

\* !s.solved[viID] (line 134)
wireUnsolved(s, t) == ~s.solved[t.vID]

\* The loop over the terms of one input (lines 126-145) from term j on.
\* acc is [sum, lambda, status]: the input so far, the content of lambda,
\* and "ok", "unresolved" (the return of line 140) or "panic" (computeTerm).
RECURSIVE evalInput(_, _, _, _)
evalInput(s, lc, j, acc) ==
    IF j > Len(lc) THEN acc
    ELSE LET t == lc[j]
         IN  IF t.vis = Virtual
             THEN evalInput(s, lc, j + 1,
                            [sum |-> acc.sum + s.coefficients[t.cID],
                             lambda |-> s.coefficients[t.cID],
                             status |-> "ok"])
             ELSE IF wireUnsolved(s, t)
             THEN [acc EXCEPT !.status = "unresolved"]
             ELSE LET v == computeTerm(s, t)
                  IN  IF v.panic
                      THEN [acc EXCEPT !.status = "panic"]
                      ELSE evalInput(s, lc, j + 1,
                                     [sum |-> acc.sum + v.val,
                                      lambda |-> v.val,
                                      status |-> "ok"])

\* The loop over the inputs (lines 124-146) from input i on.  acc is
\* [inputs, lambda, status].
RECURSIVE evalInputs(_, _, _, _)
evalInputs(s, Inputs, i, acc) ==
    IF i > Len(Inputs) THEN acc
    ELSE LET e == evalInput(s, Inputs[i], 1,
                            [sum |-> 0, lambda |-> acc.lambda, status |-> "ok"])
         IN  IF e.status # "ok"
             THEN [inputs |-> Append(acc.inputs, e.sum)
                                \o [k \in 1 .. (Len(Inputs) - i) |-> 0],
                   lambda |-> e.lambda,
                   status |-> e.status]
             ELSE evalInputs(s, Inputs, i + 1,
                             [inputs |-> Append(acc.inputs, e.sum),
                              lambda |-> e.lambda,
                              status |-> "ok"])

\* The loop that assigns the outputs (lines 166-169) from output i on:
\* h.Wires[i] out of range and set on a solved wire panic, with the wires
\* assigned so far left assigned.
RECURSIVE assignOutputs(_, _, _, _)
assignOutputs(s, wires, outputs, i) ==
    IF i > Len(outputs) THEN [panic |-> FALSE, s |-> s]
    ELSE IF i > Len(wires) THEN [panic |-> TRUE, s |-> s]
    ELSE LET r == set(s, wires[i], frSetBigInt(outputs[i]))
         IN  IF r.panic THEN [panic |-> TRUE, s |-> s]
             ELSE assignOutputs(r.s, wires, outputs, i + 1)

\* the test of line 107 never skipping the call
alreadySolvedNever(s, vID) == FALSE

\* s.solved[vID] (line 107)
alreadySolved(s, vID) == s.solved[vID]

\* a missing hint function treated as an invariant violation
missingHintPanics(s) ==
    [kind |-> "panic", err |-> "nil", s |-> s, invoked |-> <<>>, got |-> 0, put |-> <<>>,
     mem |-> <<>>, called |-> <<>>]

\* return errors.New("missing hint function") (lines 112-114)
missingHint(s) ==
    [kind |-> "return", err |-> ErrMissingHint, s |-> s, invoked |-> <<>>,
     got |-> 0, put |-> <<>>, mem |-> <<>>, called |-> <<>>]

\* the inputs given to the hint function as they are summed
reduceInputsNot(inputs) == inputs

\* inputs[i].Mod(inputs[i], q) for every input (lines 156-161)
reduceInputs(inputs) == [i \in 1 .. Len(inputs) |-> inputs[i] % Q]

\* the Puts of lines 136-139: lambda, then every input.  Buffers are numbered
\* in the order of their Get: inputs[i] is i, lambda is nIn + 1.
releaseUnresolved(nIn) == <<nIn + 1>> \o [i \in 1 .. nIn |-> i]

\* the Puts of lines 171-178: every input, then every output, outputs[0]
\* being lambda and outputs[i] the buffer nIn + 1 + i
releaseAll(nIn, n) == [i \in 1 .. nIn + n |-> i]

\* solution.solveWithHint(vID, h).  The result is [kind, err, s, invoked, got,
\* put, mem, called]: kind "return" with the error returned ("nil" for none) or "panic",
\* the solution as the call leaves it, the calls of the raw hint computation,
\* the number of buffers taken from bigIntPool and the buffers put back, in
\* the order of the Puts, mem, what the buffers hold when the call ends, and
\* called, the inputs and the number of outputs given to f.Call with the
\* outputs and the error it has returned.
solveWithHint(s, vID, h, pool) ==
    IF alreadySolved(s, vID)
    THEN [kind |-> "return", err |-> "nil", s |-> s, invoked |-> <<>>,
          got |-> 0, put |-> <<>>, mem |-> <<>>, called |-> <<>>]
    ELSE IF h.ID \notin DOMAIN s.mHintsFunctions
    THEN missingHint(s)
    ELSE
      LET f == s.mHintsFunctions[h.ID]
          e == evalInputs(s, h.Inputs, 1,
                          [inputs |-> <<>>, lambda |-> pool[1], status |-> "ok"])
          n == TotalOutputs(f, Len(h.Inputs))
          nIn == Len(h.Inputs)
      IN  IF e.status = "unresolved"
          THEN [kind |-> "return", err |-> ErrUnresolved, s |-> s, invoked |-> <<>>,
                got |-> nIn + 1, put |-> releaseUnresolved(nIn),
                mem |-> Append(e.inputs, e.lambda),
                called |-> <<>>]
          ELSE IF e.status = "panic"
          THEN [kind |-> "panic", err |-> "nil", s |-> s, invoked |-> <<>>,
                got |-> nIn + 1, put |-> <<>>, mem |-> Append(e.inputs, e.lambda),
                called |-> <<>>]
          ELSE IF n < 1
          THEN \* make([]*big.Int, n) with n < 0, or outputs[0] with n = 0
               [kind |-> "panic", err |-> "nil", s |-> s, invoked |-> <<>>,
                got |-> nIn + 1, put |-> <<>>, mem |-> Append(e.inputs, e.lambda),
                called |-> <<>>]
          ELSE
            LET outputs == [i \in 1 .. n |-> IF i = 1 THEN e.lambda ELSE pool[i]]
                inputs == reduceInputs(e.inputs)
                c == Call(f, inputs, outputs)
                a == assignOutputs(s, h.Wires, c.res, 1)
            IN  [kind |-> IF a.panic THEN "panic" ELSE "return",
                 err |-> IF a.panic THEN "nil" ELSE c.err,
                 s |-> a.s,
                 invoked |-> c.invoked,
                 got |-> nIn + n,
                 put |-> IF a.panic THEN <<>> ELSE releaseAll(nIn, n),
                 mem |-> inputs \o c.res,
                 called |-> << [inputs |-> inputs, nRes |-> n,
                                res |-> c.res, err |-> c.err] >>]

(***************************************************************************)
(* The inputs of the operations.                                           *)
(***************************************************************************)
\* the hint functions of the solve (opt.HintFunctions), in order
SolveHintFunctions ==
    << NewFixedHint(FnDouble, 1, 1), NewFixedHint(FnDouble, 2, 2),
       NewFixedHint(FnDouble, 1, 0) >>

\* the identifiers a hint descriptor may carry: those of the solve's
\* functions and one of a function that was not supplied
HintIDs ==
    { UUID(SolveHintFunctions[k]) : k \in 1 .. Len(SolveHintFunctions) }
      \cup { UUID(NewFixedHint(FnCopy, 1, 1)) }

\* the terms of hint inputs: constants (the wire of a Virtual term is not
\* used) and every coefficient on every wire
HintTerms ==
    { Term(c, 0, Virtual) : c \in CoeffIDs }
      \cup { Term(c, w, Internal) : c \in CoeffIDs, w \in Wires }

\* the terms that may come second in a linear combination
SecondTerms ==
    { Term(NbCoeffs - 1, 0, Virtual) } \cup { Term(CoeffIdOne, w, Internal) : w \in Wires }

\* linear combinations of at most two terms
LinExps ==
    { <<>> } \cup { <<t>> : t \in HintTerms }
      \cup { <<t, u>> : t \in SecondTerms, u \in SecondTerms }

\* the inputs of a hint: at most two linear combinations with at most two
\* terms in all
HintInputs ==
    { <<>> } \cup { <<lc>> : lc \in LinExps }
      \cup { <<a, b>> : a \in { <<>> } \cup { <<t>> : t \in SecondTerms },
                        b \in { <<>> } \cup { <<t>> : t \in SecondTerms } }

\* the output wires of a hint: one or two wires, possibly the same twice
HintWires == { <<w>> : w \in Wires } \cup { <<w, x>> : w \in Wires, x \in Wires }

\* compiled.Hint
Hints == [ID : HintIDs, Inputs : HintInputs, Wires : HintWires]

\* what the buffers from bigIntPool may hold: pool[1] is given to lambda,
\* pool[2] to outputs[1]
Pools == [1 .. 2 -> Fr]

\* what the caller of solveWithHint sees of the call with the result r
outcome(r) == [kind |-> r.kind, err |-> r.err, s |-> r.s, invoked |-> r.invoked]

\* The pools to tell apart for one call: every one when the call reads a
\* buffer before it writes it, and one otherwise.
PoolsOf(sol, vID, h) ==
    IF outcome(solveWithHint(sol, vID, h, [i \in 1 .. 2 |-> 0]))
         = outcome(solveWithHint(sol, vID, h, [i \in 1 .. 2 |-> 1]))
    THEN { [i \in 1 .. 2 |-> 0] }
    ELSE Pools

(***************************************************************************)
(* backend/hint/registry.go and the set-up of a solve.                     *)
(***************************************************************************)
\* the goroutines that use the registry
NbProcs == 2

Procs == 1 .. NbProcs

\* the hint functions that gadgets and callers register or supply
RegFunctions ==
    { NewFixedHint(FnDouble, 1, 1), NewFixedHint(FnCopy, 1, 1),
      NewFixedHint(FnFail, 1, 1) }

\* the functions a caller gives to WithHints: at most two
Supplied ==
    { <<>> } \cup { <<f>> : f \in RegFunctions }
      \cup { <<f, g>> : f \in RegFunctions, g \in RegFunctions }

\* the sequences that hold every element of the set S once
Orders(S) ==
    { q \in [1 .. Cardinality(S) -> S] : \A e \in S : \E k \in DOMAIN q : q[k] = e }

\* NewProverOption(WithHints(supplied...)) on the snapshot GetAll returned:
\* HintFunctions is the snapshot with the supplied functions appended
NewProverOption(snapshot, supplied) == [HintFunctions |-> snapshot \o supplied]

\* sync.RWMutex: the goroutine holding the write lock (0 for none) and the
\* goroutines holding a read lock
Unlocked == [writer |-> 0, readers |-> {}]

\* Lock returns when no goroutine holds the lock, for writing or for reading
canLock(m) == m.writer = 0 /\ m.readers = {}

\* an RLock that does not wait for the writer
canRLockAlways(m) == TRUE

\* RLock returns when no goroutine holds the lock for writing
canRLock(m) == m.writer = 0

\* the identifiers of the functions that are registered
RegIDs == { UUID(f) : f \in RegFunctions }

(***************************************************************************)
(* The state.                                                              *)
(***************************************************************************)
VARIABLES
    s,          \* the solution
    pc,         \* "idle", "done" (an operation has returned) or "aborted" (it panicked)
    op,         \* the operation that ran last, with its arguments
    pre,        \* the solution as it was when op started
    ret,        \* what op returned
    registry,   \* hint.registry: ID -> AnnotatedFunction
    registryM,  \* hint.registryM
    gpc,        \* where each goroutine is in Register or GetAll
    garg,       \* the function each goroutine registers
    gret,       \* the slice GetAll returned to each goroutine
    last,       \* the call that the last step completed, with its result
    regLog,     \* per function, the Register calls that returned and that panicked
    hf,         \* two functions made by NewFixedHint, with their UUIDs
    hcall,      \* the last Call of hf.f, with its arguments and result
    solve,      \* the solve of a compiled circuit on one witness
    lv,         \* a program on compiled.Variable values and the arrays behind them
    lg,         \* a solution and the rendering of a log entry on it
    cc          \* two solves of one circuit and the pool of buffers they share

solveVars == <<s, pc, op, pre, ret>>
regVars == <<registry, registryM, gpc, garg, gret, last, regLog>>
hintVars == <<hf, hcall>>
otherVars == <<solve, lv, lg, cc>>
vars == <<solveVars, regVars, hintVars, otherVars>>

None == [name |-> "none"]

InitSolve ==
    /\ s = newSolution(NbWires, SolveHintFunctions, CoeffTable).s
    /\ pc = "idle"
    /\ op = None
    /\ pre = None
    /\ ret = None

InitRegistry ==
    /\ registry = [i \in {} |-> 0]
    /\ registryM = Unlocked
    /\ gpc = [p \in Procs |-> "idle"]
    /\ garg = [p \in Procs |-> None]
    /\ gret = [p \in Procs |-> None]
    /\ last = None
    /\ regLog = [ok |-> [f \in RegFunctions |-> 0], panic |-> [f \in RegFunctions |-> 0]]

InitHint ==
    /\ hf = None
    /\ hcall = None

InitCircuit == solve = None

InitVariable == lv = None

InitLog == lg = None

InitConcurrent == cc = None

Init == InitSolve /\ InitRegistry /\ InitHint /\ InitCircuit /\ InitVariable /\ InitLog
          /\ InitConcurrent

(***************************************************************************)
(* The state machine of one solve.                                         *)
(***************************************************************************)
\* s.set(id, value)
Set(id, value) ==
    /\ pc = "idle"
    /\ LET r == set(s, id, value)
       IN  /\ s' = r.s
           /\ pc' = IF r.panic THEN "aborted" ELSE "done"
           /\ ret' = [kind |-> IF r.panic THEN "panic" ELSE "return"]
    /\ op' = [name |-> "set", id |-> id, value |-> value]
    /\ pre' = s
    /\ UNCHANGED <<regVars, hintVars, otherVars>>

\* s.isValid()
IsValid ==
    /\ pc = "idle"
    /\ ret' = [kind |-> "return", val |-> isValid(s)]
    /\ pc' = "done"
    /\ op' = [name |-> "isValid"]
    /\ pre' = s
    /\ UNCHANGED <<s, regVars, hintVars, otherVars>>

\* s.computeTerm(t)
ComputeTerm(t) ==
    /\ pc = "idle"
    /\ LET r == computeTerm(s, t)
       IN  /\ pc' = IF r.panic THEN "aborted" ELSE "done"
           /\ ret' = [kind |-> IF r.panic THEN "panic" ELSE "return", val |-> r.val]
    /\ op' = [name |-> "computeTerm", t |-> t]
    /\ pre' = s
    /\ UNCHANGED <<s, regVars, hintVars, otherVars>>

\* s.solveWithHint(vID, h), the pool holding pool
SolveWithHint(vID, h, pool) ==
    /\ pc = "idle"
    /\ LET r == solveWithHint(s, vID, h, pool)
       IN  /\ s' = r.s
           /\ pc' = IF r.kind = "panic" THEN "aborted" ELSE "done"
           /\ ret' = [kind |-> r.kind, err |-> r.err, invoked |-> r.invoked,
                      got |-> r.got, put |-> r.put, called |-> r.called]
    /\ op' = [name |-> "solveWithHint", vID |-> vID, h |-> h]
    /\ pre' = s
    /\ UNCHANGED <<regVars, hintVars, otherVars>>

\* the solver goes on after an operation has returned
Continue ==
    /\ pc = "done"
    /\ pc' = "idle"
    /\ op' = None
    /\ pre' = None
    /\ ret' = None
    /\ UNCHANGED <<s, regVars, hintVars, otherVars>>

\* the solver is between two operations
Idle == pc = "idle"

Next ==
    \/ Idle /\ \E id \in Wires, value \in Fr : Set(id, value)
    \/ IsValid
    \/ Idle /\ \E t \in Terms : ComputeTerm(t)
    \/ Idle /\ \E vID \in Wires, h \in Hints :
                 \E pool \in PoolsOf(s, vID, h) : SolveWithHint(vID, h, pool)
    \/ Continue

Spec == Init /\ [][Next]_vars

(***************************************************************************)
(* The registry used by several goroutines, and the set-up of a solve.     *)
(* A goroutine's gpc is "idle", "Register" (it holds the write lock),      *)
(* "RegisterReturn" or "RegisterPanic" (the body is over and the deferred  *)
(* Unlock is to run), "GetAll" (it holds a read lock), "GetAllReturn" (the *)
(* copy is made and the deferred RUnlock is to run) or "panicked".         *)
(***************************************************************************)
\* Register: registryM.Lock() (line 15).  garg keeps, beside the argument,
\* the registry as it is when the lock is taken.
RegisterLock(p, hintFn) ==
    /\ gpc[p] = "idle"
    /\ canLock(registryM)
    /\ registryM' = [registryM EXCEPT !.writer = p]
    /\ gpc' = [gpc EXCEPT ![p] = "Register"]
    /\ garg' = [garg EXCEPT ![p] = [hintFn |-> hintFn, before |-> registry]]
    /\ gret' = [gret EXCEPT ![p] = None]
    /\ last' = None
    /\ UNCHANGED <<registry, regLog, solveVars, hintVars, otherVars>>

\* a store that drops the other entries of the map
registryStoreAlone(m, key, hintFn) == [i \in {key} |-> hintFn]

\* registry[key] = hintFn (line 21)
registryStore(m, key, hintFn) ==
    [i \in DOMAIN m \cup {key} |-> IF i = key THEN hintFn ELSE m[i]]

\* Register: lines 17-21 under the lock
RegisterBody(p) ==
    /\ gpc[p] = "Register"
    /\ LET key == UUID(garg[p].hintFn)
       IN  IF hasHintFunction(registry, key)
           THEN /\ gpc' = [gpc EXCEPT ![p] = "RegisterPanic"]
                /\ UNCHANGED registry
           ELSE /\ registry' = registryStore(registry, key, garg[p].hintFn)
                /\ gpc' = [gpc EXCEPT ![p] = "RegisterReturn"]
    /\ last' = None
    /\ UNCHANGED <<registryM, garg, gret, regLog, solveVars, hintVars, otherVars>>

\* Register: the deferred registryM.Unlock() (line 16), on return and on
\* panic; the panic then ends the goroutine
RegisterUnlock(p) ==
    /\ gpc[p] \in {"RegisterReturn", "RegisterPanic"}
    /\ registryM' = [registryM EXCEPT !.writer = 0]
    /\ last' = [name |-> "Register", p |-> p, hintFn |-> garg[p].hintFn,
                before |-> garg[p].before,
                kind |-> IF gpc[p] = "RegisterPanic" THEN "panic" ELSE "return"]
    /\ gpc' = [gpc EXCEPT ![p] = IF gpc[p] = "RegisterPanic" THEN "panicked" ELSE "idle"]
    /\ garg' = [garg EXCEPT ![p] = None]
    /\ regLog' = IF gpc[p] = "RegisterPanic"
                 THEN [regLog EXCEPT !.panic[garg[p].hintFn] = @ + 1]
                 ELSE [regLog EXCEPT !.ok[garg[p].hintFn] = @ + 1]
    /\ UNCHANGED <<registry, gret, solveVars, hintVars, otherVars>>

\* GetAll: registryM.RLock() (line 26)
GetAllRLock(p) ==
    /\ gpc[p] = "idle"
    /\ canRLock(registryM)
    /\ registryM' = [registryM EXCEPT !.readers = @ \cup {p}]
    /\ gpc' = [gpc EXCEPT ![p] = "GetAll"]
    /\ gret' = [gret EXCEPT ![p] = None]
    /\ last' = None
    /\ UNCHANGED <<registry, garg, regLog, solveVars, hintVars, otherVars>>

\* GetAll: lines 28-32, the copy of the map's values in the order the
\* iteration over the map gives them
GetAllBody(p, r) ==
    /\ gpc[p] = "GetAll"
    /\ r \in Orders({ registry[i] : i \in DOMAIN registry })
    /\ gret' = [gret EXCEPT ![p] = [name |-> "GetAll", r |-> r]]
    /\ gpc' = [gpc EXCEPT ![p] = "GetAllReturn"]
    /\ last' = None
    /\ UNCHANGED <<registry, registryM, garg, regLog, solveVars, hintVars, otherVars>>

\* GetAll: the deferred registryM.RUnlock() (line 27)
GetAllRUnlock(p) ==
    /\ gpc[p] = "GetAllReturn"
    /\ registryM' = [registryM EXCEPT !.readers = @ \ {p}]
    /\ gpc' = [gpc EXCEPT ![p] = "idle"]
    /\ last' = [name |-> "GetAll", p |-> p, r |-> gret[p].r]
    /\ UNCHANGED <<registry, garg, gret, regLog, solveVars, hintVars, otherVars>>

\* The set-up of a solve by the goroutine to which GetAll has returned:
\* NewProverOption(WithHints(supplied...)) on that slice, then newSolution
\* with the HintFunctions of the option.
SolveSetup(p, supplied) ==
    /\ gpc[p] = "idle"
    /\ gret[p] # None
    /\ LET opt == NewProverOption(gret[p].r, supplied)
           r == newSolution(NbWires, opt.HintFunctions, CoeffTable)
       IN  last' = [name |-> "newSolution", p |-> p,
                    snapshot |-> gret[p].r, supplied |-> supplied,
                    hintFunctions |-> opt.HintFunctions,
                    err |-> r.err, mHintsFunctions |-> r.s.mHintsFunctions]
    /\ gret' = [gret EXCEPT ![p] = None]
    /\ UNCHANGED <<registry, registryM, gpc, garg, regLog, solveVars, hintVars, otherVars>>

NextRegistry ==
    \/ \E p \in Procs, hintFn \in RegFunctions : RegisterLock(p, hintFn)
    \/ \E p \in Procs : RegisterBody(p)
    \/ \E p \in Procs : RegisterUnlock(p)
    \/ \E p \in Procs : GetAllRLock(p)
    \/ \E p \in Procs :
         \E r \in Orders({ registry[i] : i \in DOMAIN registry }) : GetAllBody(p, r)
    \/ \E p \in Procs : GetAllRUnlock(p)
    \/ \E p \in Procs, supplied \in Supplied : SolveSetup(p, supplied)

SpecRegistry == Init /\ [][NextRegistry]_vars

(***************************************************************************)
(* Hint functions made by NewFixedHint, their identifiers and their Call.  *)
(***************************************************************************)
\* the inputs and the result buffers given to Call: up to MaxArity + 1 of them
CallInputs == UNION { [1 .. n -> 1 .. 2] : n \in 0 .. (MaxArity + 1) }
CallResults == UNION { [1 .. n -> {0}] : n \in 0 .. (MaxArity + 1) }

\* f := NewFixedHint(..); g := NewFixedHint(..); f.UUID(); g.UUID()
MakeHints(f, g) ==
    /\ hf = None
    /\ hf' = [name |-> "hints", f |-> f, g |-> g, idf |-> UUID(f), idg |-> UUID(g)]
    /\ hcall' = None
    /\ UNCHANGED <<solveVars, regVars, otherVars>>

\* f.Call(inputs, res)
CallHint(inputs, res) ==
    /\ hf # None
    /\ hcall = None
    /\ hcall' = [name |-> "Call", inputs |-> inputs, nRes |-> Len(res),
                 r |-> Call(hf.f, inputs, res)]
    /\ UNCHANGED <<hf, solveVars, regVars, otherVars>>

NextHint ==
    \/ \E f \in AnnotatedFunctions, g \in AnnotatedFunctions : MakeHints(f, g)
    \/ \E inputs \in CallInputs, res \in CallResults : CallHint(inputs, res)

SpecHint == Init /\ [][NextHint]_vars

(***************************************************************************)
(* The properties of solution (specification Spec).                        *)
(***************************************************************************)
\* C1: in every step of set and solveWithHint, a wire that is marked solved
\* stays marked solved and its stored value does not change: Unsolved ->
\* Solved is the only transition of a wire and Solved is terminal.
C1_SolvedIsTerminal ==
    [][\A w \in Wires : s.solved[w] => s'.solved[w] /\ s'.values[w] = s.values[w]]_vars

\* solveWithHint has assigned a wire while another wire was solved
C1_SolvedKeptWhileSolving ==
    /\ pc = "done"
    /\ op.name = "solveWithHint"
    /\ \E w \in Wires : pre.solved[w]
    /\ s # pre

\* C2: set(id, value) on a solved wire panics, and at the panic the values,
\* the solved markers and the solved count are those before the call; on an
\* unsolved wire it returns with the value stored, the wire marked solved and
\* the solved count increased by one.
C2_SetPanicsOrStores ==
    op.name = "set" =>
        IF pre.solved[op.id]
        THEN /\ pc = "aborted"
             /\ ret.kind = "panic"
             /\ s.values = pre.values
             /\ s.solved = pre.solved
             /\ s.nbSolved = pre.nbSolved
        ELSE /\ pc = "done"
             /\ ret.kind = "return"
             /\ s.values[op.id] = op.value
             /\ s.solved[op.id]
             /\ s.nbSolved = pre.nbSolved + 1

\* set has panicked on a solved wire whose value differs from the argument
C2_SetOnSolvedWire ==
    /\ op.name = "set"
    /\ pc = "aborted"
    /\ pre.solved[op.id]
    /\ pre.values[op.id] # op.value

\* C3: solveWithHint(vID, h) on a solved wire vID returns success without
\* looking up or calling a hint function (also when h.ID is not in the hint
\* table), and leaves values, solved markers and solved count as they were.
C3_SolvedWireIsNoOp ==
    (op.name = "solveWithHint" /\ pre.solved[op.vID]) =>
        /\ pc = "done"
        /\ ret.kind = "return"
        /\ ret.err = "nil"
        /\ ret.invoked = <<>>
        /\ s = pre

\* solveWithHint has returned for the second output wire of a two-output
\* hint, both output wires being solved
C3_SecondOutputAlreadySolved ==
    /\ op.name = "solveWithHint"
    /\ pc = "done"
    /\ op.h.ID = UUID(NewFixedHint(FnDouble, 2, 2))
    /\ Len(op.h.Wires) = 2
    /\ op.h.Wires[1] # op.h.Wires[2]
    /\ op.vID = op.h.Wires[2]
    /\ pre.solved[op.h.Wires[1]]
    /\ pre.solved[op.h.Wires[2]]

\* C4: solveWithHint(vID, h) on an unsolved wire with h.ID not a key of the
\* hint table returns the error "missing hint function" (it does not
\* panic), calls no hint function and leaves the solution as it was.
C4_MissingHintFunction ==
    (/\ op.name = "solveWithHint"
     /\ ~pre.solved[op.vID]
     /\ op.h.ID \notin DOMAIN pre.mHintsFunctions) =>
        /\ pc = "done"
        /\ ret.kind = "return"
        /\ ret.err = ErrMissingHint
        /\ ret.invoked = <<>>
        /\ s = pre

\* solveWithHint has returned for an unsolved wire and an unknown identifier
C4_UnknownIdentifier ==
    /\ op.name = "solveWithHint"
    /\ pc = "done"
    /\ ~pre.solved[op.vID]
    /\ op.h.ID \notin DOMAIN pre.mHintsFunctions
    /\ op.h.Inputs # <<>>

\* a term of an input of h that is not Virtual is on a wire unsolved in sol
HasUnsolvedTerm(sol, h) ==
    \E i \in DOMAIN h.Inputs : \E j \in DOMAIN h.Inputs[i] :
        /\ h.Inputs[i][j].vis # Virtual
        /\ ~sol.solved[h.Inputs[i][j].vID]

\* what solveWithHint leaves when it stops on an unresolved input wire
UnresolvedOutcome ==
    /\ pc = "done"
    /\ ret.kind = "return"
    /\ ret.err = ErrUnresolved
    /\ ret.invoked = <<>>
    /\ s = pre

\* C5 as stated: whenever a non-Virtual term of an input of h is on an
\* unsolved wire, solveWithHint(vID, h) returns the unresolved-dependency
\* error, calls no hint function and changes nothing.
C5_UnresolvedWhenever ==
    (op.name = "solveWithHint" /\ HasUnsolvedTerm(pre, op.h)) => UnresolvedOutcome

\* C5, amended: when vID is unsolved and h.ID is a key of the hint table,
\* and a non-Virtual term of an input of h is on an unsolved wire,
\* solveWithHint(vID, h) returns the unresolved-dependency error (it does
\* not panic in computeTerm), calls no hint function and changes nothing.
C5_UnresolvedDependency ==
    (/\ op.name = "solveWithHint"
     /\ ~pre.solved[op.vID]
     /\ op.h.ID \in DOMAIN pre.mHintsFunctions
     /\ HasUnsolvedTerm(pre, op.h)) => UnresolvedOutcome

\* solveWithHint has met, in the second input, a term with a coefficient
\* other than zero on an unsolved wire
C5_UnsolvedInSecondInput ==
    /\ op.name = "solveWithHint"
    /\ pc = "done"
    /\ ~pre.solved[op.vID]
    /\ op.h.ID \in DOMAIN pre.mHintsFunctions
    /\ Len(op.h.Inputs) = 2
    /\ ~HasUnsolvedTerm(pre, [op.h EXCEPT !.Inputs = <<op.h.Inputs[1]>>])
    /\ HasUnsolvedTerm(pre, op.h)
    /\ \E j \in DOMAIN op.h.Inputs[2] : op.h.Inputs[2][j].cID # CoeffIdZero

\* the field element that a reserved coefficient ID stands for
ReservedLiteral(cID) ==
    CASE cID = CoeffIdZero -> 0
      [] cID = CoeffIdOne -> 1 % Q
      [] cID = CoeffIdTwo -> 2 % Q
      [] cID = CoeffIdMinusOne -> (Q - 1) % Q

ReservedIDs == {CoeffIdZero, CoeffIdOne, CoeffIdTwo, CoeffIdMinusOne}

\* C10: on a solved wire, computeTerm returns for a reserved coefficient ID
\* the product mod q of the literal 0, 1, 2 or -1 and the wire's value, and
\* for every other ID the product mod q of coefficients[cID] and the value.
C10_ComputeTermIsProduct ==
    (op.name = "computeTerm" /\ pre.solved[op.t.vID]) =>
        /\ pc = "done"
        /\ ret.val = frMul(IF op.t.cID \in ReservedIDs
                           THEN ReservedLiteral(op.t.cID)
                           ELSE pre.coefficients[op.t.cID],
                           pre.values[op.t.vID])

\* computeTerm has returned for the coefficient minus one and for a general
\* coefficient on a wire whose value is neither 0 nor 1
C10_MinusOneOnSolvedWire ==
    /\ op.name = "computeTerm"
    /\ pc = "done"
    /\ op.t.cID = CoeffIdMinusOne
    /\ pre.solved[op.t.vID]
    /\ pre.values[op.t.vID] > 1

(***************************************************************************)
(* The properties of the registry and of the set-up of a solve             *)
(* (specification SpecRegistry).                                           *)
(***************************************************************************)
\* two functions of the list l have the same identifier
SharesIdentifier(l) ==
    \E i \in DOMAIN l : \E j \in DOMAIN l : i < j /\ UUID(l[i]) = UUID(l[j])

\* C6: the hint table built from the slice GetAll returned followed by the
\* functions the caller supplied fails with "duplicate hint function"
\* exactly when two functions of that list have the same identifier;
\* otherwise it succeeds and the table holds, under the identifier of each
\* function of the list and under no other key, that function.
C6_DuplicateExactlyOnSharedIdentifier ==
    last.name = "newSolution" =>
        /\ last.hintFunctions = last.snapshot \o last.supplied
        /\ (last.err = "duplicate hint function") = SharesIdentifier(last.hintFunctions)
        /\ ~SharesIdentifier(last.hintFunctions) =>
             /\ last.err = "nil"
             /\ DOMAIN last.mHintsFunctions
                  = { UUID(last.hintFunctions[k]) : k \in DOMAIN last.hintFunctions }
             /\ \A k \in DOMAIN last.hintFunctions :
                  last.mHintsFunctions[UUID(last.hintFunctions[k])] = last.hintFunctions[k]

\* the set-up has failed on one supplied function whose identifier is that
\* of a registered function, the registered one being another function
C6_SuppliedCollidesWithRegistered ==
    /\ last.name = "newSolution"
    /\ last.err = "duplicate hint function"
    /\ Len(last.supplied) = 1
    /\ \E k \in DOMAIN last.snapshot :
         /\ UUID(last.snapshot[k]) = UUID(last.supplied[1])
         /\ last.snapshot[k] # last.supplied[1]

\* C7: Register(f) with the identifier of f in the registry panics, the
\* registry being as it was and the lock released; Register(f) with an
\* unused identifier returns, f being stored under its identifier and every
\* other entry being as it was.
C7_RegisterPanicsOrAddsOne ==
    last.name = "Register" =>
        LET key == UUID(last.hintFn)
        IN  IF key \in DOMAIN last.before
            THEN /\ last.kind = "panic"
                 /\ gpc[last.p] = "panicked"
                 /\ registry = last.before
                 /\ registryM = Unlocked
            ELSE /\ last.kind = "return"
                 /\ DOMAIN registry = DOMAIN last.before \cup {key}
                 /\ registry[key] = last.hintFn
                 /\ \A i \in DOMAIN last.before : registry[i] = last.before[i]
                 /\ registryM = Unlocked

\* Register has panicked on a function that is not the registered one
C7_RegisterCollides ==
    /\ last.name = "Register"
    /\ last.kind = "panic"
    /\ \A i \in DOMAIN last.before : last.before[i] # last.hintFn
    /\ Cardinality(DOMAIN last.before) = 2

(***************************************************************************)
(* The properties of NewFixedHint functions (specification SpecHint).      *)
(***************************************************************************)
\* C8 as stated: two functions made by NewFixedHint from the same
\* computation, nIn and nOut have equal identifiers, and two that differ in
\* the computation, in nIn or in nOut have different identifiers.
C8_IdentifierTellsFunctionsApart ==
    hf.name = "hints" =>
        /\ hf.f = hf.g => hf.idf = hf.idg
        /\ hf.f # hf.g => hf.idf # hf.idg

\* C9: Call with a number of inputs other than nIn, or of outputs other
\* than nOut, returns an arity error and the underlying computation is not
\* invoked; every invocation of it has nIn inputs and nOut outputs.
C9_CallChecksArity ==
    hcall.name = "Call" =>
        /\ (Len(hcall.inputs) # hf.f.nIn \/ hcall.nRes # hf.f.nOut) =>
             /\ hcall.r.err \in {ErrInputArity, ErrResultArity}
             /\ hcall.r.invoked = <<>>
        /\ \A k \in DOMAIN hcall.r.invoked :
             /\ hcall.r.invoked[k].fn = hf.f.fn
             /\ Len(hcall.r.invoked[k].inputs) = hf.f.nIn
             /\ hcall.r.invoked[k].nRes = hf.f.nOut

\* Call has refused nIn inputs with a wrong number of outputs
C9_WrongNumberOfOutputs ==
    /\ hcall.name = "Call"
    /\ Len(hcall.inputs) = hf.f.nIn
    /\ hcall.nRes # hf.f.nOut
    /\ hcall.r.err = ErrResultArity

(***************************************************************************)
(* The solve of a compiled circuit.  The compiler and the loop over the    *)
(* constraints are not part of the sources at hand: the compiled form of   *)
(* the circuit and the loop follow the design document (the solver is      *)
(* handed a wire count, a coefficient table and an ordered list of         *)
(* constraints and hint descriptors; a constraint whose residual is not    *)
(* zero once its wires are solved is reported as unsatisfied).  The steps  *)
(* of the loop use newSolution, set, solveWithHint, computeTerm and        *)
(* isValid as modelled above.                                              *)
(***************************************************************************)
Public == "Public"
Secret == "Secret"

ErrUnsatisfied == "constraint is not satisfied"
ErrNotSolved == "a wire is left unsolved"

\* var multiHint = hint.NewFixedHint(func ... res[i] = 2 * inputs[i] ..., 2, 2)
multiHint == NewFixedHint(FnDouble, 2, 2)

\* The paired-doubling circuit, compiled.  Wire 0 is the constant one, wires
\* 1, 2 are the public B0, B1, wires 3, 4 the secret A0, A1, and wires 5, 6
\* the outputs b[0], b[1] of the hint.
MultiHintCircuit ==
    LET h == [ID |-> UUID(multiHint),
              Inputs |-> << <<Term(CoeffIdOne, 3, Secret)>>, <<Term(CoeffIdOne, 4, Secret)>> >>,
              Wires |-> <<5, 6>>]
    IN  [nbWires |-> 7,
         public |-> <<1, 2>>,
         secret |-> <<3, 4>>,
         hints |-> [w \in {5, 6} |-> h],
         constraints |->
           << [l |-> <<Term(CoeffIdOne, 5, Internal)>>, r |-> <<Term(CoeffIdTwo, 3, Secret)>>],
              [l |-> <<Term(CoeffIdOne, 6, Internal)>>, r |-> <<Term(CoeffIdTwo, 4, Secret)>>],
              [l |-> <<Term(CoeffIdOne, 5, Internal)>>, r |-> <<Term(CoeffIdOne, 1, Public)>>],
              [l |-> <<Term(CoeffIdOne, 6, Internal)>>, r |-> <<Term(CoeffIdOne, 2, Public)>>] >>]

\* the witnesses of the circuit, &Circuit{A0: .., A1: .., B0: .., B1: ..}:
\* every field element for each variable, and the integers of TestMultiHint
MultiHintWitnesses ==
    [A0 : Fr \cup {5}, A1 : Fr \cup {7}, B0 : Fr \cup {9, 10}, B1 : Fr \cup {13, 14}]

\* the assignment of the witness to the wires one, public and secret, in order
RECURSIVE assignWitness(_, _, _, _)
assignWitness(sol, wires, values, i) ==
    IF i > Len(wires) THEN sol
    ELSE assignWitness(set(sol, wires[i], frSetBigInt(values[i])).s, wires, values, i + 1)

\* The start of a solve: the solution is made with the hint functions of the
\* option and the wires of the witness are set.
startSolve(circuit, hintFunctions, public, secret) ==
    LET r == newSolution(circuit.nbWires, hintFunctions, CoeffTable)
    IN  IF r.err # "nil" THEN [err |-> r.err, s |-> r.s]
        ELSE [err |-> "nil",
              s |-> assignWitness(assignWitness(set(r.s, 0, 1 % Q).s,
                                                circuit.public, public, 1),
                                  circuit.secret, secret, 1)]

\* The sum of computeTerm over the terms of lc from term j on.
RECURSIVE evalLinExp(_, _, _)
evalLinExp(sol, lc, j) ==
    IF j > Len(lc) THEN [panic |-> FALSE, val |-> 0]
    ELSE LET v == computeTerm(sol, lc[j])
             rest == evalLinExp(sol, lc, j + 1)
         IN  IF v.panic \/ rest.panic THEN [panic |-> TRUE, val |-> 0]
             ELSE [panic |-> FALSE, val |-> (v.val + rest.val) % Q]

\* The first unsolved wire of the terms that a hint defines, if there is
\* one, is resolved by solveWithHint.
resolveHints(circuit, sol, terms, pool) ==
    LET open == { j \in DOMAIN terms :
                    /\ terms[j].vis # Virtual
                    /\ ~sol.solved[terms[j].vID]
                    /\ terms[j].vID \in DOMAIN circuit.hints }
        first == CHOOSE m \in open : \A n \in open : m <= n
    IN  IF open = {} THEN [kind |-> "return", err |-> "nil", s |-> sol]
        ELSE solveWithHint(sol, terms[first].vID, circuit.hints[terms[first].vID], pool)

\* the comparison of the two sides of a constraint, evaluated as l and r
compareSides(sol, l, r) ==
    IF l.panic \/ r.panic THEN [kind |-> "panic", err |-> "nil", s |-> sol]
    ELSE IF l.val # r.val THEN [kind |-> "return", err |-> ErrUnsatisfied, s |-> sol]
    ELSE [kind |-> "return", err |-> "nil", s |-> sol]

\* the residual of the constraint c after the resolution h of its hint wires
checkResidual(h, c) ==
    IF h.kind = "panic" \/ h.err # "nil" THEN [kind |-> h.kind, err |-> h.err, s |-> h.s]
    ELSE compareSides(h.s, evalLinExp(h.s, c.l, 1), evalLinExp(h.s, c.r, 1))

\* One constraint l = r: its hint wire is resolved, then its residual is
\* evaluated and must be zero.
solveConstraint(circuit, sol, c, pool) ==
    checkResidual(resolveHints(circuit, sol, c.l \o c.r, pool), c)

\* the solve after its constraint k has given r
afterConstraint(sv, r) ==
    [sv EXCEPT !.s = r.s,
               !.k = sv.k + 1,
               !.err = r.err,
               !.pc = IF r.kind = "panic" THEN "aborted"
                      ELSE IF r.err # "nil" THEN "failed"
                      ELSE "running"]

\* The pools to tell apart for one constraint: every one when a buffer is
\* read before it is written, and one otherwise.
ConstraintPools(circuit, sol, c) ==
    IF solveConstraint(circuit, sol, c, [i \in 1 .. 2 |-> 0])
         = solveConstraint(circuit, sol, c, [i \in 1 .. 2 |-> 1])
    THEN { [i \in 1 .. 2 |-> 0] }
    ELSE Pools

\* assert.ProverSucceeded / ProverFailed(&multiCircuit, witness,
\* WithHints(multiHint)): the solve starts
SolveStart(w) ==
    /\ solve = None
    /\ LET r == startSolve(MultiHintCircuit, <<multiHint>>, <<w.B0, w.B1>>, <<w.A0, w.A1>>)
       IN  solve' = [name |-> "solve", w |-> w, s |-> r.s, k |-> 1, err |-> r.err,
                     pc |-> IF r.err = "nil" THEN "running" ELSE "failed"]
    /\ UNCHANGED <<solveVars, regVars, hintVars, lv, lg, cc>>

\* the solve handles its next constraint
SolveConstraint(pool) ==
    /\ solve.name = "solve"
    /\ solve.pc = "running"
    /\ solve.k <= Len(MultiHintCircuit.constraints)
    /\ solve' = afterConstraint(solve,
                                solveConstraint(MultiHintCircuit, solve.s,
                                                MultiHintCircuit.constraints[solve.k], pool))
    /\ UNCHANGED <<solveVars, regVars, hintVars, lv, lg, cc>>

\* the solve ends after the last constraint
SolveEnd ==
    /\ solve.name = "solve"
    /\ solve.pc = "running"
    /\ solve.k > Len(MultiHintCircuit.constraints)
    /\ solve' = [solve EXCEPT !.pc = IF isValid(solve.s) THEN "solved" ELSE "failed",
                              !.err = IF isValid(solve.s) THEN "nil" ELSE ErrNotSolved]
    /\ UNCHANGED <<solveVars, regVars, hintVars, lv, lg, cc>>

NextCircuit ==
    \/ \E w \in MultiHintWitnesses : SolveStart(w)
    \/ /\ solve # None
       /\ solve.pc = "running"
       /\ solve.k <= Len(MultiHintCircuit.constraints)
       /\ \E pool \in ConstraintPools(MultiHintCircuit, solve.s,
                                       MultiHintCircuit.constraints[solve.k]) :
            SolveConstraint(pool)
    \/ SolveEnd

SpecCircuit == Init /\ [][NextCircuit]_vars

\* C11: the solve of the paired-doubling circuit ends solved exactly when
\* B0 = 2 * A0 and B1 = 2 * A1 in the field, and otherwise it ends with the
\* unsatisfied-constraint error; it never aborts.
C11_PairedDoublingSolves ==
    /\ solve.name = "solve" => solve.pc # "aborted"
    /\ (solve.name = "solve" /\ solve.pc \in {"solved", "failed"}) =>
         IF /\ solve.w.B0 % Q = (2 * solve.w.A0) % Q
            /\ solve.w.B1 % Q = (2 * solve.w.A1) % Q
         THEN /\ solve.pc = "solved"
              /\ solve.err = "nil"
              /\ solve.s.values[5] = solve.w.B0 % Q
              /\ solve.s.values[6] = solve.w.B1 % Q
         ELSE /\ solve.pc = "failed"
              /\ solve.err = ErrUnsatisfied

\* the solve of (5, 7, 10, 14) has ended solved
C11_TestMultiHintSucceeds ==
    /\ solve.name = "solve"
    /\ solve.w = [A0 |-> 5, A1 |-> 7, B0 |-> 10, B1 |-> 14]
    /\ solve.pc = "solved"

(***************************************************************************)
(* compiled.Variable: a slice of terms.  A slice is [ptr, len], ptr the    *)
(* array behind it in the heap (0 for the nil slice).                      *)
(***************************************************************************)
\* the longest linear combination
MaxTerms == 2

\* the terms of the linear combinations: two with the same wire and
\* visibility, one on another wire, one with another visibility
VariableTerms ==
    { Term(CoeffIdOne, 0, Public), Term(CoeffIdTwo, 0, Public),
      Term(CoeffIdOne, 1, Public), Term(CoeffIdOne, 0, Internal) }

\* the order of the visibilities among themselves
visRank(vis) ==
    CASE vis = Public -> 3
      [] vis = Secret -> 2
      [] vis = Internal -> 1
      [] OTHER -> 0

\* var v Variable
NilVariable == [ptr |-> 0, len |-> 0]

\* the terms of the slice v
termsOf(heap, v) == IF v.ptr = 0 THEN <<>> ELSE SubSeq(heap[v.ptr], 1, v.len)

\* Variable{t1, ..., tn}: a new array holding terms, and the slice on it
newVariable(heap, terms) ==
    [heap |-> Append(heap, terms), v |-> [ptr |-> Len(heap) + 1, len |-> Len(terms)]]

\* a clone that is the slice itself
cloneAliases(heap, v) == [heap |-> heap, v |-> v]

\* Variable.Clone: res := make(Variable, len(v)); copy(res, v)
Clone(heap, v) == newVariable(heap, termsOf(heap, v))

\* Variable.Equal
Equal(heap, v, o) ==
    IF v.len # o.len THEN FALSE
    ELSE IF (v.ptr = 0) # (o.ptr = 0) THEN FALSE
    ELSE \A i \in 1 .. v.len : heap[v.ptr][i] = heap[o.ptr][i]

\* Variable.Swap: v[i], v[j] = v[j], v[i] (indices from 1)
Swap(heap, v, i, j) ==
    [heap EXCEPT ![v.ptr] = [@ EXCEPT ![i] = heap[v.ptr][j], ![j] = heap[v.ptr][i]]]

\* v[i] = t
writeTerm(heap, v, i, t) == [heap EXCEPT ![v.ptr][i] = t]

\* Variable.Less
Less(heap, v, i, j) ==
    IF heap[v.ptr][i].vis = heap[v.ptr][j].vis
    THEN heap[v.ptr][i].vID < heap[v.ptr][j].vID
    ELSE visRank(heap[v.ptr][i].vis) > visRank(heap[v.ptr][j].vis)

\* the sequences of at most MaxTerms terms
TermLists == UNION { [1 .. n -> VariableTerms] : n \in 0 .. MaxTerms }

\* a and b are made, nil for nilA and nilB, and compared: a.Equal(b)
CallEqual(nilA, ta, nilB, tb) ==
    /\ lv = None
    /\ nilA => ta = <<>>
    /\ nilB => tb = <<>>
    /\ LET ma == IF nilA THEN [heap |-> <<>>, v |-> NilVariable] ELSE newVariable(<<>>, ta)
           mb == IF nilB THEN [heap |-> ma.heap, v |-> NilVariable] ELSE newVariable(ma.heap, tb)
       IN  lv' = [name |-> "equal", heap |-> mb.heap, a |-> ma.v, b |-> mb.v,
                  r |-> Equal(mb.heap, ma.v, mb.v)]
    /\ UNCHANGED <<solveVars, regVars, hintVars, solve, lg, cc>>

\* v is made, nil for nilV
MakeVariable(nilV, tv) ==
    /\ lv = None
    /\ nilV => tv = <<>>
    /\ LET m == IF nilV THEN [heap |-> <<>>, v |-> NilVariable] ELSE newVariable(<<>>, tv)
       IN  lv' = [name |-> "clone", heap |-> m.heap, v |-> m.v, c |-> None, last |-> "make"]
    /\ UNCHANGED <<solveVars, regVars, hintVars, solve, lg, cc>>

\* c := v.Clone()
CloneVariable ==
    /\ lv.name = "clone"
    /\ lv.c = None
    /\ LET m == Clone(lv.heap, lv.v)
       IN  lv' = [lv EXCEPT !.heap = m.heap, !.c = m.v, !.last = "Clone"]
    /\ UNCHANGED <<solveVars, regVars, hintVars, solve, lg, cc>>

\* the slice of the program named who
sliceOf(who) == IF who = "v" THEN lv.v ELSE lv.c

\* who.Swap(i - 1, j - 1), on the clone or on the original
SwapTerms(who, i, j) ==
    /\ lv.name = "clone"
    /\ lv.c # None
    /\ i \in 1 .. sliceOf(who).len
    /\ j \in 1 .. sliceOf(who).len
    /\ lv' = [lv EXCEPT !.heap = Swap(lv.heap, sliceOf(who), i, j), !.last = who]
    /\ UNCHANGED <<solveVars, regVars, hintVars, solve, lg, cc>>

\* who[i - 1] = t, on the clone or on the original
WriteTerm(who, i, t) ==
    /\ lv.name = "clone"
    /\ lv.c # None
    /\ i \in 1 .. sliceOf(who).len
    /\ lv' = [lv EXCEPT !.heap = writeTerm(lv.heap, sliceOf(who), i, t), !.last = who]
    /\ UNCHANGED <<solveVars, regVars, hintVars, solve, lg, cc>>

NextVariable ==
    \/ \E nilA \in BOOLEAN, ta \in TermLists, nilB \in BOOLEAN, tb \in TermLists :
         CallEqual(nilA, ta, nilB, tb)
    \/ \E nilV \in BOOLEAN, tv \in TermLists : MakeVariable(nilV, tv)
    \/ CloneVariable
    \/ \E who \in {"v", "c"}, i \in 1 .. MaxTerms, j \in 1 .. MaxTerms : SwapTerms(who, i, j)
    \/ \E who \in {"v", "c"}, i \in 1 .. MaxTerms, t \in VariableTerms : WriteTerm(who, i, t)

SpecVariable == Init /\ [][NextVariable]_vars

\* the terms of v are in the canonical order: no term is Less than the one
\* before it
CanonicallySorted(heap, v) ==
    \A i \in 1 .. (v.len - 1) : ~Less(heap, v, i + 1, i)

\* the number of occurrences of the term t in the slice v
Occurrences(heap, v, t) == Cardinality({ i \in 1 .. v.len : heap[v.ptr][i] = t })

\* the slices v and o hold the same multiset of terms
SameMultiset(heap, v, o) ==
    \A t \in VariableTerms : Occurrences(heap, v, t) = Occurrences(heap, o, t)

\* C13 as stated: for canonically sorted a and b, the zero-term combination
\* being nil or empty, Equal(a, b) is true exactly when a and b hold the same
\* multiset of (coefficient, wire, visibility) triples.
C13_EqualIffSameMultiset ==
    (/\ lv.name = "equal"
     /\ CanonicallySorted(lv.heap, lv.a)
     /\ CanonicallySorted(lv.heap, lv.b)) =>
        (lv.r = SameMultiset(lv.heap, lv.a, lv.b))

\* C14: Clone(v) holds the terms of v in the order of v, on an array of its
\* own unless it has no term; no write or swap on the clone changes the
\* terms of v, and none on v changes the terms of the clone.
C14_CloneIsIndependent ==
    [][(lv.name = "clone" /\ lv'.name = "clone" /\ lv'.c # None) =>
         /\ lv'.last = "Clone" =>
              /\ termsOf(lv'.heap, lv'.c) = termsOf(lv.heap, lv.v)
              /\ termsOf(lv'.heap, lv'.v) = termsOf(lv.heap, lv.v)
              /\ lv'.c.len > 0 => lv'.c.ptr # lv'.v.ptr
         /\ (lv.c # None /\ lv'.last = "c") =>
              termsOf(lv'.heap, lv'.v) = termsOf(lv.heap, lv.v)
         /\ (lv.c # None /\ lv'.last = "v") =>
              termsOf(lv'.heap, lv'.c) = termsOf(lv.heap, lv.c)]_vars

\* a write on the clone has left it different from the original
C14_CloneWritten ==
    /\ lv.name = "clone"
    /\ lv.c # None
    /\ lv.last = "c"
    /\ lv.v.len = MaxTerms
    /\ \A i \in 1 .. lv.v.len : lv.heap[lv.v.ptr][i] # lv.heap[lv.c.ptr][i]

(***************************************************************************)
(* The registry under concurrent Register and GetAll.                      *)
(***************************************************************************)
\* the goroutines inside Register, between Lock and Unlock
Writers == { p \in Procs : gpc[p] \in {"Register", "RegisterReturn", "RegisterPanic"} }

\* the goroutines inside GetAll, between RLock and RUnlock
Readers == { p \in Procs : gpc[p] \in {"GetAll", "GetAllReturn"} }

\* the functions whose Register has returned
Registered == { f \in RegFunctions : regLog.ok[f] >= 1 }

\* the functions of the identifier k
WithID(k) == { f \in RegFunctions : UUID(f) = k }

\* the Register calls for the identifier k that have returned
Returned(k) == Cardinality({ f \in WithID(k) : regLog.ok[f] >= 1 })

\* r holds exactly the functions whose Register has returned, once each
ConsistentSnapshot(r) ==
    /\ { r[i] : i \in DOMAIN r } = Registered
    /\ \A i, j \in DOMAIN r : UUID(r[i]) = UUID(r[j]) => i = j

\* C15: at most one goroutine is inside Register and then none is inside
\* GetAll; the slice GetAll returns holds exactly one function per identifier
\* whose Register has returned, a Register in progress being none of them;
\* of the Register calls that have ended for one identifier exactly one
\* returned and all others panicked.
C15_RegistryUnderConcurrency ==
    /\ Cardinality(Writers) <= 1
    /\ Writers # {} => Readers = {}
    /\ \A p \in Procs : gpc[p] = "GetAllReturn" => ConsistentSnapshot(gret[p].r)
    /\ last.name = "GetAll" => ConsistentSnapshot(last.r)
    /\ \A k \in RegIDs :
         /\ Returned(k) <= 1
         /\ \A f \in WithID(k) :
              /\ regLog.ok[f] <= 1
              /\ regLog.panic[f] >= 1 => Returned(k) = 1
    /\ \A p \in Writers :
         gpc[p] = "RegisterReturn" => Returned(UUID(garg[p].hintFn)) = 0

\* two goroutines are inside GetAll at the same time, each with a slice of
\* the two functions that are registered
C15_TwoReadersInside ==
    /\ Cardinality(Readers) >= 2
    /\ \A p \in Readers : gpc[p] = "GetAllReturn" /\ Len(gret[p].r) = 2

\* the Register of a second function with the identifier of a registered
\* one has panicked, and the other goroutine goes on
C15_SecondRegisterAborts ==
    /\ \E f, g \in RegFunctions :
         f # g /\ UUID(f) = UUID(g) /\ regLog.ok[f] = 1 /\ regLog.panic[g] = 1
    /\ \E p \in Procs : gpc[p] = "GetAllReturn" /\ Len(gret[p].r) = 2

(***************************************************************************)
(* The scratch buffers of solveWithHint and the number of outputs.         *)
(***************************************************************************)
\* every buffer taken from the pool has been put back, once
AllReturnedOnce(got, put) ==
    /\ Len(put) = got
    /\ { put[i] : i \in DOMAIN put } = 1 .. got

\* C17 as stated: on every exit of solveWithHint (return without error,
\* unresolved-dependency error, hint-call error, abort while the outputs are
\* assigned) every buffer taken from the pool has been put back exactly once.
C17_EveryBufferReturnedOnce ==
    op.name = "solveWithHint" => AllReturnedOnce(ret.got, ret.put)

\* solveWithHint(vID, h) comes to ask the hint function for its number of
\* outputs: vID is unsolved, the function is in the table, every input is
\* resolved
AsksTotalOutputs ==
    /\ op.name = "solveWithHint"
    /\ ~pre.solved[op.vID]
    /\ op.h.ID \in DOMAIN pre.mHintsFunctions
    /\ ~HasUnsolvedTerm(pre, op.h)

\* C18 as stated: when TotalOutputs(nInputs) of the hint function is less
\* than one, solveWithHint returns an error: it does not abort, does not
\* call the hint function and assigns no wire.
C18_NoOutputIsAnError ==
    (/\ AsksTotalOutputs
     /\ TotalOutputs(pre.mHintsFunctions[op.h.ID], Len(op.h.Inputs)) < 1) =>
        /\ ret.kind = "return"
        /\ ret.err # "nil"
        /\ ret.invoked = <<>>
        /\ s = pre

(***************************************************************************)
(* solution.logValue: the operands of the format of a log entry.           *)
(***************************************************************************)
\* the longest list of terms to resolve
MaxLog == 3

\* compiled.TermDelimitor, a term that is none of a constraint
TermDelimitor == [cID |-> NbCoeffs, vID |-> NbWires, vis |-> "Delimitor"]

\* the entries of LogEntry.ToResolve
LogTerms ==
    { TermDelimitor,
      Term(CoeffIdOne, 0, Internal), Term(CoeffIdTwo, 1, Internal),
      Term(CoeffIdTwo, 0, Virtual), Term(CoeffIdMinusOne, 0, Virtual) }

LogEntries == UNION { [1 .. n -> LogTerms] : n \in 0 .. MaxLog }

\* const unsolvedVariable = "<unsolved>"
unsolvedVariable == [str |-> "<unsolved>"]

\* the literal "-1"
minusOneLiteral == [str |-> "-1"]

\* fr.Element.String(): the text of the value v
frString(v) == [str |-> "value", val |-> v]

\* the rendering of a wire term that never looks at the solved marker
termOperandsUnchecked(sol, t) ==
    IF t.vis = Virtual
    THEN IF t.cID = CoeffIdMinusOne THEN << minusOneLiteral >>
         ELSE << frString(sol.coefficients[t.cID]) >>
    ELSE (IF ~(t.cID = CoeffIdMinusOne \/ t.cID = CoeffIdOne)
          THEN << frString(sol.coefficients[t.cID]) >> ELSE << >>)
         \o << frString(sol.values[t.vID]) >>

\* the operands of a term outside a span (lines 242-258)
termOperands(sol, t) ==
    IF t.vis = Virtual
    THEN IF t.cID = CoeffIdMinusOne THEN << minusOneLiteral >>
         ELSE << frString(sol.coefficients[t.cID]) >>
    ELSE (IF ~(t.cID = CoeffIdMinusOne \/ t.cID = CoeffIdOne)
          THEN << frString(sol.coefficients[t.cID]) >> ELSE << >>)
         \o (IF ~sol.solved[t.vID] THEN << unsolvedVariable >>
             ELSE << frString(sol.values[t.vID]) >>)

\* the end of the loop of logValue (line 260): the operands appended so far
logEnd(st) == [panic |-> FALSE, val |-> st.toResolve]

\* the loop of logValue (lines 207-259) from entry j on; st is toResolve,
\* isEval, eval and missingValue
RECURSIVE logLoop(_, _, _, _)

\* tv := s.computeTerm(log.ToResolve[j]); eval.Add(&eval, &tv) (lines
\* 238-239): tv is the result of computeTerm, whose panic ends logValue
logEvalTerm(sol, tr, j, st, tv) ==
    IF tv.panic THEN [panic |-> TRUE, val |-> << >>]
    ELSE logLoop(sol, tr, j + 1, [st EXCEPT !.eval = (@ + tv.val) % Q])

logLoop(sol, tr, j, st) ==
    IF j > Len(tr) THEN logEnd(st)
    ELSE IF tr[j] = TermDelimitor
    THEN IF ~st.isEval
         THEN logLoop(sol, tr, j + 1,
                      [st EXCEPT !.isEval = TRUE, !.missingValue = FALSE, !.eval = 0])
         ELSE logLoop(sol, tr, j + 1,
                      [st EXCEPT !.isEval = FALSE,
                                 !.toResolve = Append(@, IF st.missingValue
                                                         THEN unsolvedVariable
                                                         ELSE frString(st.eval))])
    ELSE IF st.isEval
    THEN IF tr[j].vis = Virtual
         THEN logLoop(sol, tr, j + 1,
                      [st EXCEPT !.eval = (@ + sol.coefficients[tr[j].cID]) % Q])
         ELSE IF ~sol.solved[tr[j].vID]
         THEN logLoop(sol, tr, j + 1, [st EXCEPT !.missingValue = TRUE])
         ELSE logEvalTerm(sol, tr, j, st, computeTerm(sol, tr[j]))
    ELSE logLoop(sol, tr, j + 1, [st EXCEPT !.toResolve = @ \o termOperands(sol, tr[j])])

\* solution.logValue(log): the operands given to fmt.Sprintf(log.Format, ...),
\* or the panic of computeTerm
logValue(sol, tr) ==
    logLoop(sol, tr, 1, [toResolve |-> <<>>, isEval |-> FALSE, eval |-> 0,
                       missingValue |-> FALSE])

\* a solution is made for the log
LogStart ==
    /\ lg = None
    /\ lg' = [name |-> "log",
              s |-> newSolution(NbWires, SolveHintFunctions, CoeffTable).s,
              pre |-> None, log |-> None, r |-> None, panic |-> FALSE,
              w |-> "none", logs |-> None, out |-> << >>]
    /\ UNCHANGED <<solveVars, regVars, hintVars, solve, lv, cc>>

\* s.set(id, value) on the solution of the log
LogSet(id, value) ==
    /\ lg.name = "log"
    /\ lg.log = None
    /\ lg.logs = None
    /\ ~lg.s.solved[id]
    /\ lg' = [lg EXCEPT !.s = set(lg.s, id, value).s]
    /\ UNCHANGED <<solveVars, regVars, hintVars, solve, lv, cc>>

\* s.logValue(log)
LogValue(tr) ==
    /\ lg.name = "log"
    /\ lg.log = None
    /\ lg.logs = None
    /\ lg' = [lg EXCEPT !.pre = lg.s, !.log = [ToResolve |-> tr],
                        !.r = logValue(lg.s, tr).val,
                        !.panic = logValue(lg.s, tr).panic]
    /\ UNCHANGED <<solveVars, regVars, hintVars, solve, lv, cc>>

\* the io.Writer given to printLogs: nil, or a writer
NilWriter == "nil"
LogWriters == { NilWriter, "writer" }

\* the log entries given to printLogs: those of at most one term, and one
\* entry with a span
PrintedEntries ==
    { e \in LogEntries : Len(e) <= 1 }
        \cup { << TermDelimitor, Term(CoeffIdTwo, 1, Internal), TermDelimitor >> }

\* the lists of log entries given to printLogs
PrintedLogs == UNION { [1 .. n -> PrintedEntries] : n \in 0 .. 2 }

\* the loop of printLogs (lines 191-194) from entry i on; out is what has
\* been written to w
RECURSIVE printLoop(_, _, _, _)

\* io.WriteString(w, logLine) (line 193): logLine is the result of logValue
writeLine(sol, logs, i, out, logLine) ==
    IF logLine.panic THEN [panic |-> TRUE, out |-> out]
    ELSE printLoop(sol, logs, i + 1, Append(out, logLine.val))

printLoop(sol, logs, i, out) ==
    IF i > Len(logs) THEN [panic |-> FALSE, out |-> out]
    ELSE writeLine(sol, logs, i, out, logValue(sol, logs[i]))

\* solution.printLogs(w, logs): what is written to w
printLogs(sol, w, logs) ==
    IF w = NilWriter THEN [panic |-> FALSE, out |-> << >>]
    ELSE printLoop(sol, logs, 1, << >>)

\* s.printLogs(w, logs)
PrintLogs(w, logs) ==
    /\ lg.name = "log"
    /\ lg.log = None
    /\ lg.logs = None
    /\ lg' = [lg EXCEPT !.pre = lg.s, !.w = w, !.logs = [entries |-> logs],
                        !.out = printLogs(lg.s, w, logs).out,
                        !.panic = printLogs(lg.s, w, logs).panic]
    /\ UNCHANGED <<solveVars, regVars, hintVars, solve, lv, cc>>

NextLog ==
    \/ LogStart
    \/ \E id \in Wires, value \in Fr : LogSet(id, value)
    \/ \E tr \in LogEntries : LogValue(tr)
    \/ \E w \in LogWriters, logs \in PrintedLogs : PrintLogs(w, logs)

SpecLog == Init /\ [][NextLog]_vars

\* the entry after j that is a delimiter, or the end of the list
RECURSIVE spanEnd(_, _)
spanEnd(tr, j) ==
    IF j > Len(tr) \/ tr[j] = TermDelimitor THEN j ELSE spanEnd(tr, j + 1)

\* the sum of the entries from to upTo: the coefficient of a constant, the
\* value of computeTerm for a term on a wire
RECURSIVE spanSum(_, _, _, _)
spanSum(sol, tr, from, upTo) ==
    IF from > upTo THEN 0
    ELSE ((IF tr[from].vis = Virtual THEN sol.coefficients[tr[from].cID]
           ELSE computeTerm(sol, tr[from]).val)
          + spanSum(sol, tr, from + 1, upTo)) % Q

\* the one operand of the span of the entries from to upTo: the sentinel if
\* a wire of the span is unsolved, else the sum of the terms
spanOperand(sol, tr, from, upTo) ==
    IF \E j \in from .. upTo : tr[j].vis # Virtual /\ ~sol.solved[tr[j].vID]
    THEN unsolvedVariable
    ELSE frString(spanSum(sol, tr, from, upTo))

\* the operands of the entries from j on: one per span, the span ending at
\* the next delimiter or at the end of the list
RECURSIVE operandsBySpan(_, _, _)
operandsBySpan(sol, tr, j) ==
    IF j > Len(tr) THEN << >>
    ELSE IF tr[j] = TermDelimitor
    THEN << spanOperand(sol, tr, j + 1, spanEnd(tr, j + 1) - 1) >>
           \o operandsBySpan(sol, tr, spanEnd(tr, j + 1) + 1)
    ELSE termOperands(sol, tr[j]) \o operandsBySpan(sol, tr, j + 1)

\* C19 as stated: the operands of logValue are those of the terms outside
\* the spans and one operand per span (the sum, or the sentinel), for a span
\* closed by a delimiter and for a span open at the end of the list alike.
C19_OneOperandPerSpan ==
    (lg.name = "log" /\ lg.log # None) =>
        lg.r = operandsBySpan(lg.s, lg.log.ToResolve, 1)

(***************************************************************************)
(* The solved count.                                                       *)
(***************************************************************************)
\* the wires whose solved marker is true
SolvedWires == { w \in Wires : s.solved[w] }

\* C20: the solved count is the number of wires whose solved marker is true
\* and lies between 0 and the number of wires; isValid() is true exactly
\* when every wire is solved, the solve is in progress (solved count below
\* the number of wires) exactly while some wire is unsolved, and no step
\* decreases the solved count.
C20_SolvedCountIsExact ==
    /\ [](/\ s.nbSolved = Cardinality(SolvedWires)
          /\ s.nbSolved \in 0 .. NbWires
          /\ isValid(s) = (SolvedWires = Wires)
          /\ (s.nbSolved < NbWires) = (\E w \in Wires : ~s.solved[w])
          /\ op.name = "isValid" => ret.val = (\A w \in Wires : pre.solved[w]))
    /\ [][s'.nbSolved >= s.nbSolved]_vars

\* isValid() has returned true: every wire is solved, one to a value other
\* than zero
C20_ValidAfterHint ==
    /\ op.name = "isValid"
    /\ ret.val
    /\ SolvedWires = Wires
    /\ \E w \in Wires : s.values[w] # 0

(***************************************************************************)
(* Two solves of one circuit, each with its solution, sharing the          *)
(* coefficient table, the hint functions and bigIntPool.  A buffer of the  *)
(* pool is a number; cc.bufs[b] is what the buffer b holds, cc.free the    *)
(* buffers in the pool.  The solve of a circuit of one hint is one call of *)
(* solveWithHint, in two steps: lines 105-122 (the buffers of the inputs   *)
(* and lambda are taken) and lines 124-185.                                *)
(***************************************************************************)
\* the two solves
Solves == 1 .. 2

\* a circuit of one hint: wire 0 is the constant one, wire 1 the secret
\* input, the wires 2 and 3 are for the hint
HintCircuit(f, Inputs, hintWires) ==
    [nbWires |-> 4, public |-> <<>>, secret |-> <<1>>, hintFunctions |-> <<f>>,
     vID |-> 2, h |-> [ID |-> UUID(f), Inputs |-> Inputs, Wires |-> hintWires]]

\* the circuits: a hint of one output, one of two outputs, one called with
\* one input for two, one on a wire that no one solves, one whose function
\* fails, one with the same output wire twice
ConcurrentCircuits ==
    { HintCircuit(NewFixedHint(FnDouble, 1, 1),
                  << <<Term(CoeffIdOne, 1, Secret)>> >>, <<2>>),
      HintCircuit(NewFixedHint(FnDouble, 2, 2),
                  << <<Term(CoeffIdOne, 1, Secret)>>, <<Term(CoeffIdTwo, 1, Secret)>> >>,
                  <<2, 3>>),
      HintCircuit(NewFixedHint(FnDouble, 2, 2),
                  << <<Term(CoeffIdOne, 1, Secret)>> >>, <<2, 3>>),
      HintCircuit(NewFixedHint(FnDouble, 1, 1),
                  << <<Term(CoeffIdOne, 3, Internal)>> >>, <<2>>),
      HintCircuit(NewFixedHint(FnFail, 1, 1),
                  << <<Term(CoeffIdTwo, 1, Secret)>> >>, <<2>>),
      HintCircuit(NewFixedHint(FnDouble, 2, 2),
                  << <<Term(CoeffIdOne, 1, Secret)>>, <<Term(CoeffIdTwo, 1, Secret)>> >>,
                  <<2, 2>>) }

\* a pool that gives a buffer that a solve holds
availableHeld(free, held) == free \cup held

\* the buffers that bigIntPool.Get may give: those that were Put and not
\* taken since (or a new one)
available(free, held) == free

\* the buffers that the solves other than i hold
heldByOthers(i) ==
    UNION { { cc.sv[j].held[k] : k \in DOMAIN cc.sv[j].held } : j \in Solves \ {i} }

\* The ways to take n buffers: each is one of bigIntPool (from) or a new one,
\* the new ones being numbered from next on.
RECURSIVE Takes(_, _, _)
Takes(n, from, next) ==
    IF n = 0 THEN { <<>> }
    ELSE UNION { { <<b>> \o rest : rest \in Takes(n - 1, from \ {b}, next) } :
                 b \in from }
           \cup { <<next>> \o rest : rest \in Takes(n - 1, from, next + 1) }

\* the number of buffers there are once the buffers took are taken
extent(took) ==
    Len(cc.bufs) + Cardinality({ k \in DOMAIN took : took[k] > Len(cc.bufs) })

\* the solve of one circuit on the witnesses w1 and w2 is started twice
ConcurrentStart(circuit, w1, w2) ==
    /\ cc = None
    /\ cc' = [name |-> "solves", circuit |-> circuit, bufs |-> <<>>, free |-> {},
              shared |-> FALSE,
              sv |-> [i \in Solves |->
                        [w |-> IF i = 1 THEN w1 ELSE w2,
                         s |-> startSolve(circuit, circuit.hintFunctions, <<>>,
                                          << IF i = 1 THEN w1 ELSE w2 >>).s,
                         pc |-> "ready", held |-> <<>>, kind |-> "none", err |-> "nil"]]]
    /\ UNCHANGED <<solveVars, regVars, hintVars, solve, lv, lg>>

\* solveWithHint of the solve i up to line 122: the returns of lines 107-114,
\* else the buffers took are taken for the inputs and for lambda
Acquire(i, took) ==
    /\ cc.sv[i].pc = "ready"
    /\ IF \/ alreadySolved(cc.sv[i].s, cc.circuit.vID)
          \/ cc.circuit.h.ID \notin DOMAIN cc.sv[i].s.mHintsFunctions
       THEN /\ took = <<>>
            /\ cc' = [cc EXCEPT !.sv[i].pc = "done",
                                !.sv[i].kind = "return",
                                !.sv[i].err = solveWithHint(cc.sv[i].s, cc.circuit.vID,
                                                            cc.circuit.h,
                                                            [k \in 1 .. 2 |-> 0]).err]
       ELSE /\ Len(took) = Len(cc.circuit.h.Inputs) + 1
            /\ cc' = [cc EXCEPT
                        !.sv[i].pc = "acquired",
                        !.sv[i].held = took,
                        !.free = @ \ { took[k] : k \in DOMAIN took },
                        !.shared = @ \/ ({ took[k] : k \in DOMAIN took }
                                           \cap heldByOthers(i) # {}),
                        \* inputs[i].SetUint64(0) (line 120); lambda is as it was
                        !.bufs = [b \in 1 .. extent(took) |->
                                    IF \E k \in 1 .. (Len(took) - 1) : took[k] = b THEN 0
                                    ELSE IF b <= Len(cc.bufs) THEN cc.bufs[b]
                                    ELSE 0]]
    /\ UNCHANGED <<solveVars, regVars, hintVars, solve, lv, lg>>

\* the call of the solve i with the buffers all for its inputs, lambda and
\* its outputs: what lambda and the further outputs hold is what the pool
\* gave
callWith(i, all) ==
    solveWithHint(cc.sv[i].s, cc.circuit.vID, cc.circuit.h,
                  [k \in 1 .. 2 |->
                     IF Len(cc.circuit.h.Inputs) + k <= Len(all)
                     THEN (IF all[Len(cc.circuit.h.Inputs) + k] <= Len(cc.bufs)
                           THEN cc.bufs[all[Len(cc.circuit.h.Inputs) + k]] ELSE 0)
                     ELSE 0])

\* the state after the call of the solve i has ended with r, the buffers all
\* in its hands
finished(i, all, r) ==
    [cc EXCEPT
       !.sv[i].pc = IF r.kind = "panic" THEN "aborted" ELSE "done",
       !.sv[i].s = r.s,
       !.sv[i].kind = r.kind,
       !.sv[i].err = r.err,
       !.sv[i].held = <<>>,
       !.free = (@ \ { all[k] : k \in DOMAIN all }) \cup { all[r.put[k]] : k \in DOMAIN r.put },
       !.shared = @ \/ ({ all[k] : k \in DOMAIN all } \cap heldByOthers(i) # {}),
       !.bufs = [b \in 1 .. extent(all) |->
                   IF \E k \in DOMAIN all : all[k] = b
                   THEN r.mem[CHOOSE k \in DOMAIN all : all[k] = b]
                   ELSE IF b <= Len(cc.bufs) THEN cc.bufs[b]
                   ELSE 0]]

\* the number of buffers that the call of the solve i takes after line 122
furtherOutputs(i) ==
    solveWithHint(cc.sv[i].s, cc.circuit.vID, cc.circuit.h, [k \in 1 .. 2 |-> 0]).got
      - Len(cc.sv[i].held)

\* solveWithHint of the solve i from line 124 on, the buffers took taken for
\* the outputs after the first
Finish(i, took) ==
    /\ cc.sv[i].pc = "acquired"
    /\ cc' = finished(i, cc.sv[i].held \o took, callWith(i, cc.sv[i].held \o took))
    /\ UNCHANGED <<solveVars, regVars, hintVars, solve, lv, lg>>

NextConcurrent ==
    \/ \E circuit \in ConcurrentCircuits, w1 \in Fr, w2 \in Fr :
         ConcurrentStart(circuit, w1, w2)
    \/ \E i \in Solves :
         /\ cc # None
         /\ cc.sv[i].pc = "ready"
         /\ \E took \in { <<>> } \cup
                 Takes(Len(cc.circuit.h.Inputs) + 1,
                       available(cc.free, heldByOthers(i)), Len(cc.bufs) + 1) :
              Acquire(i, took)
    \/ \E i \in Solves :
         /\ cc # None
         /\ cc.sv[i].pc = "acquired"
         /\ \E took \in Takes(furtherOutputs(i),
                              available(cc.free, heldByOthers(i)), Len(cc.bufs) + 1) :
              Finish(i, took)

SpecConcurrent == Init /\ [][NextConcurrent]_vars

\* the solve of the circuit on the witness w alone, every buffer new
solveAlone(circuit, w) ==
    solveWithHint(startSolve(circuit, circuit.hintFunctions, <<>>, <<w>>).s,
                  circuit.vID, circuit.h, [k \in 1 .. 2 |-> 0])

\* the solve i has ended as the solve alone ends, but for the values of the
\* wires
EndsAsAlone(i) ==
    /\ cc.sv[i].s.solved = solveAlone(cc.circuit, cc.sv[i].w).s.solved
    /\ cc.sv[i].s.nbSolved = solveAlone(cc.circuit, cc.sv[i].w).s.nbSolved
    /\ cc.sv[i].kind = solveAlone(cc.circuit, cc.sv[i].w).kind
    /\ cc.sv[i].err = solveAlone(cc.circuit, cc.sv[i].w).err

\* the solves leave the coefficient table as it is and hold no buffer in
\* common
SolvesAreApart ==
    /\ \A i \in Solves : cc.sv[i].s.coefficients = CoeffTable
    /\ ~cc.shared
    /\ \A i \in Solves : \A k \in DOMAIN cc.sv[i].held :
         /\ cc.sv[i].held[k] \notin cc.free
         /\ cc.sv[i].held[k] \notin heldByOthers(i)

WellFormedOutputs(sol, h) ==
    /\ h.ID \in DOMAIN sol.mHintsFunctions
    /\ \A i, j \in DOMAIN h.Wires : h.Wires[i] = h.Wires[j] => i = j
    /\ Len(h.Wires) = TotalOutputs(sol.mHintsFunctions[h.ID], Len(h.Inputs))

\* C21 as stated: a call solveWithHint(vID, h) whose h has distinct output
\* wires, as many as the declared outputs of its function, does not abort
\* on the assignment of a wire that is already solved.
C21_DescriptorsNeverDoubleSet ==
    (op.name = "solveWithHint" /\ WellFormedOutputs(pre, op.h)) =>
        ret.kind # "panic"

\* C22: computeTerm(t) aborts exactly when the coefficient ID of t is not
\* the reserved zero and the wire of t is unsolved; with the reserved zero
\* it returns zero, the wire solved or not; it leaves the values, the solved
\* markers, the solved count and the coefficient table as they are.
C22_ComputeTermAbortsExactly ==
    op.name = "computeTerm" =>
        /\ (ret.kind = "panic") = (op.t.cID # CoeffIdZero /\ ~pre.solved[op.t.vID])
        /\ op.t.cID = CoeffIdZero => (ret.kind = "return" /\ ret.val = 0)
        /\ s = pre

\* computeTerm has returned zero for the reserved zero on an unsolved wire
C22_ZeroOnUnsolvedWire ==
    /\ op.name = "computeTerm"
    /\ op.t.cID = CoeffIdZero
    /\ ~pre.solved[op.t.vID]
    /\ \E w \in Wires : pre.solved[w] /\ pre.values[w] # 0
    /\ ret.kind = "return"

(***************************************************************************)
(* What solveWithHint gives to the hint function and does with its result. *)
(***************************************************************************)
\* the value of the linear combination from term j on: the coefficient of a
\* Virtual term, coefficient * wire value for every other term, mod q
RECURSIVE linExpValue(_, _, _)
linExpValue(sol, terms, j) ==
    IF j > Len(terms) THEN 0
    ELSE ((IF terms[j].vis = Virtual
           THEN sol.coefficients[terms[j].cID]
           ELSE sol.coefficients[terms[j].cID] * sol.values[terms[j].vID])
          + linExpValue(sol, terms, j + 1)) % Q

\* C23: when solveWithHint calls the hint function it gives one input per
\* input linear combination of h, in order, each the value of its
\* combination in [0, q) (the coefficient alone for a Virtual term,
\* coefficient * wire value for the others), and an output buffer of
\* TotalOutputs(number of inputs) entries.
C23_CallGetsReducedInputs ==
    (op.name = "solveWithHint" /\ ret.called # <<>>) =>
        /\ Len(ret.called) = 1
        /\ Len(ret.called[1].inputs) = Len(op.h.Inputs)
        /\ \A i \in DOMAIN op.h.Inputs :
             /\ ret.called[1].inputs[i] \in 0 .. (Q - 1)
             /\ ret.called[1].inputs[i] = linExpValue(pre, op.h.Inputs[i], 1)
        /\ ret.called[1].nRes
             = TotalOutputs(pre.mHintsFunctions[op.h.ID], Len(op.h.Inputs))

\* the hint function was called with an input that is the sum of two terms
\* on wires and passes q
C23_SumPassesModulus ==
    /\ op.name = "solveWithHint"
    /\ ret.called # <<>>
    /\ Len(op.h.Inputs) = 1
    /\ Len(op.h.Inputs[1]) = 2
    /\ \A j \in 1 .. 2 : op.h.Inputs[1][j].vis # Virtual
    /\ pre.coefficients[op.h.Inputs[1][1].cID] * pre.values[op.h.Inputs[1][1].vID]
         + pre.coefficients[op.h.Inputs[1][2].cID] * pre.values[op.h.Inputs[1][2].vID] >= Q

\* the hint function was called with a constant for input, the wire of the
\* Virtual term unsolved
C23_ConstantInput ==
    /\ op.name = "solveWithHint"
    /\ ret.called # <<>>
    /\ \E i \in DOMAIN op.h.Inputs : \E j \in DOMAIN op.h.Inputs[i] :
         /\ op.h.Inputs[i][j].vis = Virtual
         /\ ~pre.solved[op.h.Inputs[i][j].vID]
         /\ pre.coefficients[op.h.Inputs[i][j].cID] > 1

\* the wires of h from the first to the n-th
OutputWires(h, n) == { h.Wires[i] : i \in 1 .. n }

\* solveWithHint has called the hint function and returned without error
ReturnedSuccessAfterCall ==
    /\ op.name = "solveWithHint"
    /\ ret.kind = "return"
    /\ ret.err = "nil"
    /\ ret.called # <<>>

\* C24 as stated: when solveWithHint(vID, h) returns success after calling
\* the hint function, every wire of h.Wires is solved and holds the output
\* of its position mod q, the solved count has grown by the number of
\* outputs, and every wire not in h.Wires is as before.
C24_EveryListedWireAssigned ==
    ReturnedSuccessAfterCall =>
        /\ \A i \in DOMAIN op.h.Wires :
             /\ i \in DOMAIN ret.called[1].res
             /\ s.solved[op.h.Wires[i]]
             /\ s.values[op.h.Wires[i]] = ret.called[1].res[i] % Q
        /\ s.nbSolved = pre.nbSolved + Len(ret.called[1].res)
        /\ \A w \in Wires \ OutputWires(op.h, Len(op.h.Wires)) :
             s.values[w] = pre.values[w] /\ s.solved[w] = pre.solved[w]

\* C24, amended: when solveWithHint(vID, h) returns success after calling
\* the hint function, for every output i of the call the wire h.Wires[i] is
\* solved and holds output i mod q, the solved count has grown by the number
\* of outputs, and every other wire (the wires of h.Wires past the number of
\* outputs included) is as before.
C24_OutputsAssignedByPosition ==
    ReturnedSuccessAfterCall =>
        /\ Len(ret.called[1].res) <= Len(op.h.Wires)
        /\ \A i \in DOMAIN ret.called[1].res :
             /\ ~pre.solved[op.h.Wires[i]]
             /\ s.solved[op.h.Wires[i]]
             /\ s.values[op.h.Wires[i]] = ret.called[1].res[i] % Q
        /\ s.nbSolved = pre.nbSolved + Len(ret.called[1].res)
        /\ \A w \in Wires \ OutputWires(op.h, Len(ret.called[1].res)) :
             s.values[w] = pre.values[w] /\ s.solved[w] = pre.solved[w]

\* a hint of two outputs has returned success with an output that passes q
C24_TwoOutputsAssigned ==
    /\ ReturnedSuccessAfterCall
    /\ Len(ret.called[1].res) = 2
    /\ \E i \in 1 .. 2 : ret.called[1].res[i] >= Q

\* the call of the hint function by solveWithHint has returned an error
CallReturnedError ==
    /\ op.name = "solveWithHint"
    /\ ret.called # <<>>
    /\ ret.called[1].err # "nil"

\* C25 as stated: when the call of the hint function returns an error,
\* solveWithHint returns that error, the contents of the output buffer are
\* assigned to the output wires of the hint, which are solved, and no other
\* wire is assigned.
C25_CallErrorIsReturned ==
    CallReturnedError =>
        /\ ret.kind = "return"
        /\ ret.err = ret.called[1].err
        /\ \A i \in DOMAIN ret.called[1].res :
             /\ i \in DOMAIN op.h.Wires
             /\ s.solved[op.h.Wires[i]]
             /\ s.values[op.h.Wires[i]] = ret.called[1].res[i] % Q
        /\ \A w \in Wires \ OutputWires(op.h, Len(op.h.Wires)) :
             s.values[w] = pre.values[w] /\ s.solved[w] = pre.solved[w]

(***************************************************************************)
(* Logs on a solution with unsolved wires.                                 *)
(***************************************************************************)
\* the entries of tr before its first delimiter: they are outside any span
RECURSIVE beforeSpans(_, _)
beforeSpans(tr, j) ==
    IF j > Len(tr) \/ tr[j] = TermDelimitor THEN << >>
    ELSE << tr[j] >> \o beforeSpans(tr, j + 1)

\* the text of the coefficient of t: "-1" for the coefficient minus one
coefficientText(sol, t) ==
    IF t.cID = CoeffIdMinusOne THEN minusOneLiteral
    ELSE frString(sol.coefficients[t.cID])

\* the text of the wire of t: the sentinel if it is unsolved, else its value
wireText(sol, t) ==
    IF sol.solved[t.vID] THEN frString(sol.values[t.vID]) ELSE unsolvedVariable

\* the rendering of the terms ts, none of them in a span: a Virtual term is
\* its coefficient alone, another term is its wire, after its coefficient
\* unless that is 1 or -1
RECURSIVE renderedOutsideSpan(_, _, _)
renderedOutsideSpan(sol, ts, j) ==
    IF j > Len(ts) THEN << >>
    ELSE (IF ts[j].vis = Virtual THEN << coefficientText(sol, ts[j]) >>
          ELSE IF ts[j].cID \in {CoeffIdOne, CoeffIdMinusOne}
          THEN << wireText(sol, ts[j]) >>
          ELSE << coefficientText(sol, ts[j]), wireText(sol, ts[j]) >>)
         \o renderedOutsideSpan(sol, ts, j + 1)

\* r starts with the operands p
StartsWith(r, p) == Len(p) <= Len(r) /\ SubSeq(r, 1, Len(p)) = p

\* C26: logValue and printLogs never abort, whatever wires are unsolved, and
\* leave the solution as it was; the terms of an entry that are outside a
\* span are rendered as the sentinel or the value of their wire, after the
\* coefficient unless it is 1 or -1, and a Virtual term as its coefficient
\* alone; printLogs with no writer writes nothing.
C26_LogsNeverAbort ==
    /\ (lg.name = "log" /\ lg.log # None) =>
          /\ ~lg.panic
          /\ lg.s = lg.pre
          /\ StartsWith(lg.r, renderedOutsideSpan(lg.s, beforeSpans(lg.log.ToResolve, 1), 1))
    /\ (lg.name = "log" /\ lg.logs # None) =>
          /\ ~lg.panic
          /\ lg.s = lg.pre
          /\ lg.w = NilWriter => lg.out = << >>
          /\ lg.w # NilWriter =>
                /\ Len(lg.out) = Len(lg.logs.entries)
                /\ \A i \in DOMAIN lg.logs.entries :
                     StartsWith(lg.out[i],
                                renderedOutsideSpan(lg.s, beforeSpans(lg.logs.entries[i], 1), 1))

\* an entry of a term with a coefficient on an unsolved wire and a term on a
\* solved wire has been rendered
C26_UnsolvedWireRendered ==
    /\ lg.name = "log"
    /\ lg.log # None
    /\ lg.log.ToResolve = << Term(CoeffIdTwo, 1, Internal), Term(CoeffIdOne, 0, Internal) >>
    /\ ~lg.s.solved[1]
    /\ lg.s.solved[0]
    /\ lg.r = << frString(lg.s.coefficients[CoeffIdTwo]), unsolvedVariable,
                 frString(lg.s.values[0]) >>

\* logs with an unsolved wire have been given to printLogs with no writer
C26_NothingWrittenWithoutWriter ==
    /\ lg.name = "log"
    /\ lg.logs # None
    /\ lg.w = NilWriter
    /\ \E i \in DOMAIN lg.logs.entries : \E j \in DOMAIN lg.logs.entries[i] :
         /\ lg.logs.entries[i][j] # TermDelimitor
         /\ lg.logs.entries[i][j].vis # Virtual
         /\ ~lg.s.solved[lg.logs.entries[i][j].vID]
    /\ lg.out = << >>

\* a span over an unsolved wire has been written as the sentinel
C26_SpanOverUnsolvedWritten ==
    /\ lg.name = "log"
    /\ lg.logs # None
    /\ lg.w # NilWriter
    /\ ~lg.s.solved[1]
    /\ lg.logs.entries = << << TermDelimitor, Term(CoeffIdTwo, 1, Internal), TermDelimitor >> >>
    /\ lg.out = << << unsolvedVariable >> >>

=============================================================================
